---- MODULE Spec2Model ----
(***************************************************************************)
(* Plan generation, plan evaluation and week-1 scheduling of flowbuddy     *)
(* (backend/app/services/resolution_decomposer.py, plan_evaluator.py).     *)
(*                                                                         *)
(* Calendar days are day offsets from week_start (= date.today()); the     *)
(* weekday of offset d is (weekStartWd + d) % 7 with Monday = 0.  Clock    *)
(* times "HH:MM" are minutes after midnight.                               *)
(***************************************************************************)
EXTENDS Integers, Sequences, FiniteSets, TLC

VARIABLES
    weekStartWd,       \* date.today().weekday() = week_start.weekday()
    preferred_days,    \* _normalize_days(user_context["preferred_days"])
    resolution_type,   \* resolution type hint
    work_hours,        \* user_context["work_hours"]: <<>> or <<start, end>>
    repeat_daily,      \* repeat_daily argument of _enrich_tasks_with_schedule
    daily_load,        \* _enrich_tasks_with_schedule: day -> placed durations
    last_long_day,     \* _enrich_tasks_with_schedule: day of last >60 task
    daily_time_slots,  \* _enrich_tasks_with_schedule: day -> used times
    enriched,          \* _enrich_tasks_with_schedule: output list so far
    tasksSeen,         \* number of input tasks consumed by the loop
    pc,                \* position in decompose_resolution_with_llm
    client,            \* whether settings.openai_api_key gives a client
    user_input,        \* the goal text, as its words
    duration_weeks,    \* the duration_weeks argument
    band_label,        \* effort_band or "medium"
    resolution_domain, \* domain_label
    slot_pref,         \* category_slot_preferences(resolution_category, profile)
    availability,      \* sanitize_availability_profile(availability_profile)
    calls,             \* the Proposer calls made so far, in order
    plan_dict,         \* decompose_resolution_with_llm: plan_dict
    evaluation,        \* decompose_resolution_with_llm: evaluation
    repair_used,
    regenerate_used,
    fallback_used,
    result,            \* the plan returned to the caller
    cadence_in,        \* the cadence value handed to _build_cadence_struct
    expanded_days,     \* the offsets _expand_target_days returned, <<>> before the call
    normalized_cadence,\* the struct _build_cadence_struct returned for cadence_in
    rendered_cadence,  \* the string _public_task_data put in its place, "" before
    flag_counts,       \* the lengths of the four issue lists of an evaluation
    verdict,           \* the score and passed flag computed from them
    given_plan,        \* the plan handed to evaluate_plan, as it was at the first call
    evaluated_plan,    \* the same plan object after the calls made so far
    eval_results,      \* the EvaluationResults returned so far, in call order
    resolution_status, \* Resolution.status of the one resolution
    stored_plan,       \* metadata["plan_v1"]: 0 when absent, else the number of the
                       \* generation run that produced it
    db_tasks,          \* the rows of the tasks table
    next_task_id,      \* the id the next inserted task receives
    db_logs,           \* the rows of agent_actions_log, in insertion order
    generation_runs,   \* calls of decompose_resolution_with_llm made so far
    api_response,      \* the last request and the response it received
    job_week,          \* the calendar week the clock is in, counted from the start
    job_snapshots,     \* the snapshot rows of agent_actions_log, in insertion order
    job_task_rows,     \* task rows written by the weekly planner so far
    job_runs,          \* the job runs made so far, with the value each returned
    scheduled_tasks,   \* week-1 tasks as _enrich_tasks_with_schedule left them
    enforced_tasks,    \* the same tasks after _apply_availability_rules_to_plan
    weekly_runs,       \* the calls of run_weekly_planning_for_user in progress, by caller
    materialized       \* what the last _materialize_tasks_from_plan call created

schedVars == <<daily_load, last_long_day, daily_time_slots, enriched, tasksSeen>>
envVars == <<weekStartWd, preferred_days, resolution_type, work_hours, repeat_daily>>
genVars == <<pc, client, user_input, duration_weeks, band_label, resolution_domain, slot_pref,
             availability, calls, plan_dict, evaluation, repair_used, regenerate_used,
             fallback_used, result>>
expandVars == <<cadence_in, expanded_days, normalized_cadence, rendered_cadence>>
scoreVars == <<flag_counts, verdict>>
pureVars == <<expandVars, scoreVars>>
evalVars == <<given_plan, evaluated_plan, eval_results>>
apiVars == <<resolution_status, stored_plan, db_tasks, next_task_id, db_logs, generation_runs,
             api_response>>
jobVars == <<job_week, job_snapshots, job_task_rows, job_runs>>
availVars == <<scheduled_tasks, enforced_tasks>>
plannerVars == <<weekly_runs, materialized>>
serviceVars == <<evalVars, apiVars, jobVars, availVars, plannerVars>>
coreVars == <<envVars, schedVars, genVars, pureVars>>
vars == <<coreVars, serviceVars>>

-----------------------------------------------------------------------------
(* Bounds of the model *)
MaxTasks == 3

-----------------------------------------------------------------------------
(* Helpers *)
NoDay == -1
Min(a, b) == IF a <= b THEN a ELSE b
Max(a, b) == IF a >= b THEN a ELSE b
SetMin(S) == CHOOSE x \in S : \A y \in S : x <= y
Range(s) == {s[i] : i \in DOMAIN s}

\* date.weekday() of the day at offset d from week_start
Weekday(ws, d) == (ws + d) % 7

\* Python round() of the rational num/den (den > 0, num >= 0): nearest
\* integer, ties to the even neighbour
PyRound(num, den) ==
    LET q == num \div den
        r == num % den
    IN  IF 2 * r < den THEN q
        ELSE IF 2 * r > den THEN q + 1
        ELSE IF q % 2 = 0 THEN q ELSE q + 1

\* list.sort() / sorted() of a finite set of integers
RECURSIVE SortedSeq(_)
SortedSeq(S) ==
    IF S = {} THEN <<>>
    ELSE LET m == SetMin(S) IN <<m>> \o SortedSeq(S \ {m})

-----------------------------------------------------------------------------
(* Clock times: an "HH:MM" string is the pair <<hours, minutes>> *)

Clock(h, m) == <<h, m>>

\* _time_str_to_minutes: hours * 60 + minutes, 8 * 60 for a string that does
\* not split into two integers
_time_str_to_minutes(value) ==
    IF Len(value) = 2 THEN value[1] * 60 + value[2] ELSE 8 * 60

\* _minutes_to_time: f"{hours:02d}:{minutes:02d}" of total_minutes % 1440
_minutes_to_time(total_minutes) ==
    LET t == total_minutes % (24 * 60) IN Clock(t \div 60, t % 60)

\* int(value.split(":")[0])
HourOf(value) == value[1]

-----------------------------------------------------------------------------
(* Cadence normalisation *)

\* str.lower() on the cadence vocabulary of the model
Lower(s) ==
    CASE s = "Daily" -> "daily"
      [] s = "Flex" -> "flex"
      [] OTHER -> s

\* a raw cadence: kind "str" (type holds the string), "dict" (type "" when the
\* key is missing, count 0 when count/times_per_week is missing or falsy,
\* days <<>> when missing) or "none"
RawStr(t) == [kind |-> "str", type |-> t, count |-> 0, days |-> <<>>]
RawDict(t, c, d) == [kind |-> "dict", type |-> t, count |-> c, days |-> d]

_coerce_positive_int(value) == IF value > 0 THEN value ELSE 0

_normalize_cadence_struct(struct) ==
    LET t0 == Lower(struct.type)
        c0 == _coerce_positive_int(struct.count)
        once == t0 \in {"once_per_week"}
        twice == t0 \in {"twice_per_week", "two_per_week", "2x_per_week", "2x_in_week"}
        thrice == t0 \in {"thrice_per_week", "three_per_week", "3x_per_week", "3x_in_week"}
        weekly == t0 \in {"weekly"}
        t1 == IF once \/ twice \/ thrice \/ weekly THEN "x_per_week" ELSE t0
        c1 == IF c0 # 0 THEN c0
              ELSE IF once \/ weekly THEN 1
              ELSE IF twice THEN 2
              ELSE IF thrice THEN 3
              ELSE 0
        t2 == IF t1 # "" THEN t1
              ELSE IF c1 # 0 THEN "x_per_week"
              ELSE IF struct.days # <<>> THEN "specific_days"
              ELSE "flex"
    IN  [type |-> t2,
         count |-> IF c1 # 0 THEN c1 ELSE struct.count,
         days |-> [i \in DOMAIN struct.days |-> Lower(struct.days[i])]]

_build_cadence_struct(raw) ==
    IF raw.kind = "dict"
    THEN _normalize_cadence_struct([type |-> Lower(raw.type), count |-> raw.count, days |-> raw.days])
    ELSE IF raw.kind = "str"
    THEN _normalize_cadence_struct([type |-> Lower(raw.type), count |-> 0, days |-> <<>>])
    ELSE _normalize_cadence_struct([type |-> "flex", count |-> 0, days |-> <<>>])

-----------------------------------------------------------------------------
(* Cadence expansion *)

\* the weekday-name table of _normalize_days
DayIndexOf(name) ==
    CASE name = "monday" -> 0
      [] name = "tuesday" -> 1
      [] name = "wednesday" -> 2
      [] name = "thursday" -> 3
      [] name = "friday" -> 4
      [] name = "saturday" -> 5
      [] name = "sunday" -> 6
      [] OTHER -> NoDay

\* _normalize_days: the indexes of the recognised names, in input order
RECURSIVE _normalize_days(_)
_normalize_days(raw_days) ==
    IF raw_days = <<>> THEN <<>>
    ELSE LET idx == DayIndexOf(Lower(raw_days[1]))
         IN  (IF idx = NoDay THEN <<>> ELSE <<idx>>) \o _normalize_days(Tail(raw_days))

\* variant of the spacing that truncates instead of rounding
_evenly_spaced_days_Truncating(count) ==
    IF count <= 1 THEN <<0>>
    ELSE LET c == Max(1, Min(count, 7))
         IN  [k \in 1..c |-> Min(6, ((k - 1) * 7) \div c)]

\* _evenly_spaced_days: offsets from week_start, in the order produced
_evenly_spaced_days(count) ==
    IF count <= 1 THEN <<0>>
    ELSE LET c == Max(1, Min(count, 7))
         IN  [k \in 1..c |-> Min(6, PyRound((k - 1) * 7, c))]

\* "daily" in cadence_type, cadence_type.endswith("x_per_week") and
\* int(cadence_type.split("x")[0]) on the cadence vocabulary of the model
ContainsDaily(t) == t \in {"daily", "daily performance windows"}
EndsWithXPerWeek(t) == t \in {"x_per_week", "2x_per_week", "3x_per_week", "4x_per_week", "5x_per_week"}
PrefixCount(t) ==
    CASE t = "2x_per_week" -> 2
      [] t = "3x_per_week" -> 3
      [] t = "4x_per_week" -> 4
      [] t = "5x_per_week" -> 5
      [] t = "2x_in_week" -> 2
      [] t = "3x_in_week" -> 3
      [] OTHER -> 1

\* _expand_target_days: the sorted, de-duplicated target offsets
_expand_target_days(cadence_struct, ws, rep_daily) ==
    LET t == Lower(cadence_struct.type)
        days ==
            IF t = "daily" \/ (rep_daily /\ ContainsDaily(t))
            THEN [i \in 1..7 |-> i - 1]
            ELSE IF t = "specific_days"
            THEN LET normalized == _normalize_days(cadence_struct.days)
                 IN  [i \in DOMAIN normalized |-> (normalized[i] - ws) % 7]
            ELSE IF t \in {"x_per_week", "times_per_week"}
            THEN _evenly_spaced_days(IF cadence_struct.count # 0 THEN cadence_struct.count ELSE 1)
            ELSE IF EndsWithXPerWeek(t)
            THEN _evenly_spaced_days(PrefixCount(t))
            ELSE IF t \in {"2x_in_week", "3x_in_week"}
            THEN _evenly_spaced_days(PrefixCount(t))
            ELSE IF t \in {"once", "one_time"}
            THEN <<0>>
            ELSE IF t \in {"twice", "twice_per_week", "two_per_week"}
            THEN _evenly_spaced_days(2)
            ELSE IF t \in {"thrice", "thrice_per_week", "three_per_week"}
            THEN _evenly_spaced_days(3)
            ELSE <<0>>
    IN  SortedSeq(Range(days))

-----------------------------------------------------------------------------
(* Slot scheduler *)

max_checks == 21
HeavyMinutes == 15
LongMinutes == 60
MaxSlotTries == 5
SlotStep == 30

\* the calendar days the scheduler can touch: targets lie in week_start..+6
\* and the day search looks at most max_checks - 1 days past the target
Days == 0..(6 + max_checks - 1)

\* len([d for d in load if d >= 15])
effective_load(load) == Cardinality({i \in DOMAIN load : load[i] >= HeavyMinutes})

\* variants of the candidate-day test: without the load rule, and without
\* the spacing rule for long occurrences
DayAccepts_NoLoadRule(day, ws, pref_days, duration, load_map, last_long) ==
    LET matches_preference == pref_days = {} \/ Weekday(ws, day) \in pref_days
        long_conflict == duration > LongMinutes /\ last_long # NoDay /\ day - last_long <= 1
    IN  matches_preference /\ ~long_conflict

DayAccepts_NoSpacingRule(day, ws, pref_days, duration, load_map, last_long) ==
    LET matches_preference == pref_days = {} \/ Weekday(ws, day) \in pref_days
    IN  matches_preference /\ effective_load(load_map[day]) < 2

\* the test of one candidate day in _schedule_on_or_after
DayAccepts(day, ws, pref_days, duration, load_map, last_long) ==
    LET matches_preference == pref_days = {} \/ Weekday(ws, day) \in pref_days
        long_conflict == duration > LongMinutes /\ last_long # NoDay /\ day - last_long <= 1
    IN  matches_preference /\ effective_load(load_map[day]) < 2 /\ ~long_conflict

\* variant of the day search that gives up after one week
_schedule_on_or_after_OneWeek(target_day, ws, pref_days, duration, load_map, last_long) ==
    LET ok == {k \in 0..6 :
                  DayAccepts(target_day + k, ws, pref_days, duration, load_map, last_long)}
        day == IF ok # {} THEN target_day + SetMin(ok) ELSE target_day
    IN  [day |-> day,
         daily_load |-> [load_map EXCEPT ![day] = Append(@, duration)],
         found |-> ok # {}]

\* variant of the day search that assigns the first day of the week when it
\* finds no day
_schedule_on_or_after_BackToWeekStart(target_day, ws, pref_days, duration, load_map, last_long) ==
    LET ok == {k \in 0..(max_checks - 1) :
                  DayAccepts(target_day + k, ws, pref_days, duration, load_map, last_long)}
        day == IF ok # {} THEN target_day + SetMin(ok) ELSE 0
    IN  [day |-> day,
         daily_load |-> [load_map EXCEPT ![day] = Append(@, duration)],
         found |-> ok # {}]

\* _schedule_on_or_after: the chosen day, the updated daily_load and whether
\* the search found a day (FALSE: the target day was assigned after
\* max_checks unsuccessful days)
_schedule_on_or_after(target_day, ws, pref_days, duration, load_map, last_long) ==
    LET ok == {k \in 0..(max_checks - 1) :
                  DayAccepts(target_day + k, ws, pref_days, duration, load_map, last_long)}
        day == IF ok # {} THEN target_day + SetMin(ok) ELSE target_day
    IN  [day |-> day,
         daily_load |-> [load_map EXCEPT ![day] = Append(@, duration)],
         found |-> ok # {}]

\* variant of the time search that finds a free candidate but hands back the
\* default time
_find_free_time_slot_ReturnsDefault(base_time, used_times) ==
    LET base_minutes == _time_str_to_minutes(base_time)
        free == {o \in 0..(MaxSlotTries - 1) :
                    _minutes_to_time(base_minutes + o * SlotStep) \notin used_times}
    IN  [time |-> base_time, free |-> free # {}]

\* _find_free_time_slot: the chosen time and whether a free candidate existed
_find_free_time_slot(base_time, used_times) ==
    LET base_minutes == _time_str_to_minutes(base_time)
        free == {o \in 0..(MaxSlotTries - 1) :
                    _minutes_to_time(base_minutes + o * SlotStep) \notin used_times}
    IN  IF free # {}
        THEN [time |-> _minutes_to_time(base_minutes + SetMin(free) * SlotStep), free |-> TRUE]
        ELSE [time |-> base_time, free |-> FALSE]

_preferred_time_for_resolution(rtype, user_blocks) ==
    IF user_blocks # <<>>
    THEN CASE Lower(user_blocks[1]) = "morning" -> Clock(7, 30)
           [] Lower(user_blocks[1]) = "afternoon" -> Clock(13, 0)
           [] Lower(user_blocks[1]) = "evening" -> Clock(19, 0)
           [] Lower(user_blocks[1]) = "night" -> Clock(21, 0)
           [] OTHER -> Clock(9, 0)
    ELSE IF Lower(rtype) \in {"habit", "health", "fitness"} THEN Clock(7, 30)
    ELSE IF Lower(rtype) \in {"skill", "learning", "project", "hobby"} THEN Clock(19, 0)
    ELSE Clock(10, 0)

\* _pick_time; hours is <<>> (work_hours not given) or the <<start, end>>
\* segments of the "HH:MM-HH:MM" string
_pick_time(preferred_time, hours) ==
    IF hours = <<>> THEN preferred_time
    ELSE IF HourOf(hours[1]) <= HourOf(preferred_time) /\ HourOf(preferred_time) < HourOf(hours[2])
    THEN Clock(18, 30)
    ELSE preferred_time

_extract_duration(task) == task.estimated_duration_min

\* the scheduler's local state while _enrich_tasks_with_schedule runs
EmptySched ==
    [daily_load |-> [d \in Days |-> <<>>],
     last_long_day |-> NoDay,
     daily_time_slots |-> [d \in Days |-> {}],
     enriched |-> <<>>]

\* the clone appended for one occurrence and the scheduler state after it
OccurrencePlaced(st, task, cadence_struct, target_day, placed, slot) ==
    [daily_load |-> placed.daily_load,
     last_long_day |-> IF _extract_duration(task) > LongMinutes THEN placed.day ELSE st.last_long_day,
     daily_time_slots |-> [st.daily_time_slots EXCEPT ![placed.day] = @ \cup {slot.time}],
     enriched |-> Append(st.enriched,
                     [title |-> task.title,
                      intent |-> task.intent,
                      estimated_duration_min |-> _extract_duration(task),
                      cadence |-> task.cadence,
                      cadence_struct |-> cadence_struct,
                      has_struct |-> TRUE,
                      scheduled_day |-> placed.day,
                      scheduled_time |-> slot.time,
                      target_day |-> target_day,
                      day_found |-> placed.found,
                      slot_free |-> slot.free])]

\* one pass of the inner loop of _enrich_tasks_with_schedule: place one
\* occurrence of the task on or after target_day
PlaceOccurrence(st, task, cadence_struct, target_day, ws, pref_days, base_time) ==
    LET placed == _schedule_on_or_after(target_day, ws, pref_days, _extract_duration(task),
                                        st.daily_load, st.last_long_day)
    IN  OccurrencePlaced(st, task, cadence_struct, target_day, placed,
                         _find_free_time_slot(base_time, st.daily_time_slots[placed.day]))

RECURSIVE PlaceOccurrences(_, _, _, _, _, _, _)
PlaceOccurrences(st, task, cadence_struct, target_days, ws, pref_days, base_time) ==
    IF target_days = <<>> THEN st
    ELSE CHOOSE last \in
            {PlaceOccurrences(next, task, cadence_struct, Tail(target_days), ws, pref_days, base_time) :
                next \in {PlaceOccurrence(st, task, cadence_struct, target_days[1], ws, pref_days,
                                          base_time)}} : TRUE

\* one pass of the outer loop of _enrich_tasks_with_schedule: expand the
\* task's cadence and place every occurrence
EnrichOne(st, task, ws, pref_days, base_time, rep_daily) ==
    LET cadence_struct == _build_cadence_struct(task.cadence)
        expanded == _expand_target_days(cadence_struct, ws, rep_daily)
        target_days == IF expanded = <<>> THEN <<0>> ELSE expanded
    IN  PlaceOccurrences(st, task, cadence_struct, target_days, ws, pref_days, base_time)

RECURSIVE EnrichFrom(_, _, _, _, _, _)
EnrichFrom(st, tasks, ws, pref_days, base_time, rep_daily) ==
    IF tasks = <<>> THEN st
    ELSE CHOOSE last \in
            {EnrichFrom(next, Tail(tasks), ws, pref_days, base_time, rep_daily) :
                next \in {EnrichOne(st, tasks[1], ws, pref_days, base_time, rep_daily)}} : TRUE

\* _enrich_tasks_with_schedule: the enriched occurrence list
_enrich_tasks_with_schedule(tasks, rtype, ws, pref_days, hours, rep_daily) ==
    EnrichFrom(EmptySched, tasks, ws, pref_days,
               _pick_time(_preferred_time_for_resolution(rtype, <<>>), hours),
               rep_daily).enriched

-----------------------------------------------------------------------------
(* Plan evaluator (plan_evaluator.py) *)

RECURSIVE SumSeq(_)
SumSeq(q) == IF q = <<>> THEN 0 ELSE q[1] + SumSeq(Tail(q))

\* the effort budget table; only the medium band's weekly cap is documented
EFFORT_BAND_BUDGETS ==
    [medium |-> [weekly_minutes |-> 300, tasks_per_day |-> <<1, 2>>]]

VAGUE_TOKENS == {<<"stuff">>, <<"do", "something">>, <<"try", "to">>}
AllowListedTerms == {"scale", "chapter", "report", "session"}

\* token in title, for titles and tokens split into words
ContainsPhrase(words, phrase) ==
    \E k \in 0..(Len(words) - Len(phrase)) :
        \A n \in 1..Len(phrase) : words[k + n] = phrase[n]

\* len(title) of the words joined by single blanks
RECURSIVE TitleChars(_)
TitleChars(words) ==
    IF words = <<>> THEN 0
    ELSE Len(words[1]) + (IF Len(words) > 1 THEN 1 ELSE 0) + TitleChars(Tail(words))
ShorterThan20(words) == TitleChars(words) < 20

\* the vagueness test of one week-1 task title
IsVagueTitle(title) ==
    \/ Len(title) < 3 /\ ~\E i \in DOMAIN title : title[i] \in AllowListedTerms
    \/ /\ Len(title) >= 3 \/ \E i \in DOMAIN title : title[i] \in AllowListedTerms
       /\ \E token \in VAGUE_TOKENS :
              token = title \/ (ContainsPhrase(title, token) /\ ShorterThan20(title))

_task_duration(task) == task.estimated_duration_min

\* _cadence_estimate: <<cadence_type, cadence_count>>; the cadence read is
\* task["_cadence_struct"] when present, else task["cadence"]
_cadence_estimate(task) ==
    LET is_dict == task.has_struct \/ task.cadence.kind = "dict"
        cadence == IF task.has_struct THEN task.cadence_struct ELSE task.cadence
        cadence_type == Lower(cadence.type)
        cadence_count == IF is_dict /\ cadence.count # 0 THEN cadence.count ELSE 0
        days == IF is_dict THEN cadence.days ELSE <<>>
    IN  IF cadence_type = "daily" THEN <<cadence_type, 7>>
        ELSE IF cadence_type = "specific_days" THEN <<cadence_type, Len(days)>>
        ELSE IF cadence_type = "x_per_week" THEN <<cadence_type, cadence_count>>
        ELSE <<IF cadence_type = "" THEN "flex" ELSE cadence_type, 1>>

_cadence_type(task) ==
    IF task.has_struct THEN Lower(task.cadence_struct.type)
    ELSE IF task.cadence.kind \in {"dict", "str"} THEN Lower(task.cadence.type)
    ELSE ""

\* variant of the repeating test that accepts the daily cadence only
_is_repeating_task_DailyOnly(task) == _cadence_estimate(task)[1] = "daily"

_is_repeating_task(task) ==
    LET est == _cadence_estimate(task)
    IN  \/ est[1] = "daily"
        \/ est[1] = "x_per_week" /\ est[2] >= 5
        \/ est[1] = "specific_days" /\ est[2] >= 5

\* variant of the per-day count that also counts tasks shorter than 15 minutes
MaxTasksPerDay_CountsShortTasks(tasks) ==
    LET counted == DOMAIN tasks
        on(d) == Cardinality({i \in counted : tasks[i].scheduled_day = d})
    IN  IF counted = {} THEN 0
        ELSE CHOOSE n \in {on(tasks[i].scheduled_day) : i \in counted} :
                 \A i \in counted : on(tasks[i].scheduled_day) <= n

\* max(_estimate_tasks_per_day(tasks).values(), default=0); every week-1
\* task carries a scheduled day, so the counts are per day
MaxTasksPerDay(tasks) ==
    LET counted == {i \in DOMAIN tasks : _task_duration(tasks[i]) >= 15}
        on(d) == Cardinality({i \in counted : tasks[i].scheduled_day = d})
    IN  IF counted = {} THEN 0
        ELSE CHOOSE n \in {on(tasks[i].scheduled_day) : i \in counted} :
                 \A i \in counted : on(tasks[i].scheduled_day) <= n

_build_repair_instructions(budget, vagueness, cadence, overload) ==
    LET instructions ==
            (IF budget # <<>> THEN <<"Reduce total minutes to stay within the effort band budget.">> ELSE <<>>)
         \o (IF vagueness # <<>> THEN <<"Replace vague titles with concrete actions and measurable outputs.">> ELSE <<>>)
         \o (IF cadence # <<>> THEN <<"Add repeating practice loops with clear cadence for habit/skill goals.">> ELSE <<>>)
         \o (IF overload # <<>> THEN <<"Limit excessively long sessions and spread tasks across days.">> ELSE <<>>)
    IN  IF instructions # <<>> THEN instructions
        ELSE <<"Adjust tasks to fit the effort band constraints.">>

\* the score of evaluate_plan from the four lists
ScoreOf(budget_violations, vagueness_flags, cadence_issues, overload_warnings) ==
    Max(100 - 30 * Len(budget_violations) - 5 * Len(vagueness_flags)
            - 5 * Len(cadence_issues) - 15 * Len(overload_warnings),
        0)

\* variant of the pass rule without the relaxed budget rule
PassedOf_NoRelaxedRule(budget_violations, score) ==
    budget_violations = <<>> /\ score >= 50

\* the pass rule of evaluate_plan
PassedOf(budget_violations, score) ==
    LET relaxed_budget_ok == Len(budget_violations) = 1 /\ score >= 60
    IN  (budget_violations = <<>> /\ score >= 50) \/ relaxed_budget_ok

\* keep the members of a list that satisfy a test, as tags
RECURSIVE TagsWhere(_, _, _)
TagsWhere(q, Test(_), tag) ==
    IF q = <<>> THEN <<>>
    ELSE (IF Test(q[1]) THEN <<tag>> ELSE <<>>) \o TagsWhere(Tail(q), Test, tag)

\* goal_requirements: activity is <<>> (none) or its words; target_duration_min
\* is 0 when none was extracted
evaluate_plan(plan, band_in, rtype, requirements) ==
    LET band == IF band_in \in DOMAIN EFFORT_BAND_BUDGETS THEN band_in ELSE "medium"
        budgets == EFFORT_BAND_BUDGETS[band]
        weeks_data == plan.weeks
        weekly_minutes ==
            [w \in DOMAIN weeks_data |->
                SumSeq([i \in DOMAIN weeks_data[w].tasks |-> _task_duration(weeks_data[w].tasks[i])])]
        week1_tasks == IF weeks_data # <<>> THEN weeks_data[1].tasks ELSE <<>>
        max_tasks_per_day == MaxTasksPerDay(week1_tasks)
        Vague(task) == IsVagueTitle(task.title)
        vagueness_flags == TagsWhere(week1_tasks, Vague, "vague")
        \* minutes > weekly_minutes * 1.2, in integers: 5 * minutes > 6 * cap
        OverBudget(minutes) == 5 * minutes > 6 * budgets.weekly_minutes
        budget_violations ==
            TagsWhere(weekly_minutes, OverBudget, "week")
         \o (IF max_tasks_per_day > budgets.tasks_per_day[2] THEN <<"tasks/day">> ELSE <<>>)
        typed == rtype \in {"skill", "learning", "habit", "health"}
        repeating == \E i \in DOMAIN week1_tasks : _is_repeating_task(week1_tasks[i])
        all_flex == \A i \in DOMAIN week1_tasks : _cadence_type(week1_tasks[i]) = "flex"
        required_activity == requirements.activity
        activity_found ==
            \E i \in DOMAIN week1_tasks :
                \E kw \in Range(required_activity) :
                    kw \in Range(week1_tasks[i].title) \cup Range(week1_tasks[i].intent)
        target_duration == requirements.target_duration_min
        tolerance == Max(5, target_duration \div 5)
        duration_found ==
            \E i \in DOMAIN week1_tasks :
                LET diff == _task_duration(week1_tasks[i]) - target_duration
                IN  diff <= tolerance /\ -diff <= tolerance
        cadence_issues ==
            (IF typed /\ ~repeating THEN <<"repeating">> ELSE <<>>)
         \o (IF typed /\ all_flex THEN <<"flex">> ELSE <<>>)
         \o (IF required_activity # <<>> /\ ~activity_found THEN <<"activity">> ELSE <<>>)
         \o (IF target_duration # 0 /\ ~duration_found THEN <<"duration">> ELSE <<>>)
        TooLong(task) ==
            \/ _task_duration(task) > 120 /\ band \notin {"intense"} /\ rtype \notin {"project", "work"}
            \/ _task_duration(task) > 180
        IsLongTask(task) == _task_duration(task) > 60
        overload_warnings ==
            TagsWhere(week1_tasks, TooLong, "long")
         \o (IF band = "medium" /\ Len(TagsWhere(week1_tasks, IsLongTask, "x")) > 2
             THEN <<"many">> ELSE <<>>)
        score == ScoreOf(budget_violations, vagueness_flags, cadence_issues, overload_warnings)
        passed == PassedOf(budget_violations, score)
    IN  [band |-> band,
         weekly_minutes |-> weekly_minutes,
         max_tasks_per_day_week1 |-> max_tasks_per_day,
         vagueness_flags |-> vagueness_flags,
         cadence_issues |-> cadence_issues,
         budget_violations |-> budget_violations,
         overload_warnings |-> overload_warnings,
         score |-> score,
         passed |-> passed,
         repair_instructions |->
             IF passed THEN <<>>
             ELSE _build_repair_instructions(budget_violations, vagueness_flags,
                                             cadence_issues, overload_warnings)]

-----------------------------------------------------------------------------
(* Availability enforcer *)

\* the default availability profile: Monday-Friday, 09:00-17:00, morning peak
DefaultProfile ==
    [work_days |-> {}, work_start |-> Clock(9, 0), work_end |-> Clock(17, 0),
     peak_energy |-> "morning", work_mode_enabled |-> FALSE]

\* _availability_day_indexes, on the weekday indexes of the profile's codes
_availability_day_indexes(days) == IF days = {} THEN 0..4 ELSE days

_ensure_workday(current, ws, allowed_days) ==
    LET ok == {k \in 0..20 : Weekday(ws, current + k) \in allowed_days}
    IN  IF ok # {} THEN current + SetMin(ok) ELSE current + 21

_shift_to_weekend(current, ws) ==
    IF Weekday(ws, current) >= 5 THEN current
    ELSE LET days_until_saturday == (5 - Weekday(ws, current)) % 7
         IN  current + (IF days_until_saturday = 0 THEN 5 ELSE days_until_saturday)

_select_work_time(existing_time, profile, prefer_morning) ==
    LET start == _time_str_to_minutes(profile.work_start)
        end0 == _time_str_to_minutes(profile.work_end)
        end == IF end0 <= start THEN start + 8 * 60 ELSE end0
        desired == _time_str_to_minutes(existing_time)
    IN  _minutes_to_time(Max(start, Min(end - 15, desired)))

\* preferred_range is <<>> (none) or <<first minute, last minute>>
_select_personal_time(scheduled_day, ws, existing_time, profile, preferred_range, strict_mode, work_window) ==
    LET work_start == work_window[1]
        work_end == work_window[2]
        is_weekend == Weekday(ws, scheduled_day) >= 5
        desired0 == _time_str_to_minutes(existing_time)
        inside == ~is_weekend /\ work_start <= desired0 /\ desired0 < work_end
        pushed == Min(22 * 60, work_end + 60)
        desired == IF strict_mode /\ inside
                   THEN (IF pushed >= 22 * 60 THEN Max(5 * 60, work_start - 90) ELSE pushed)
                   ELSE IF inside THEN pushed
                   ELSE desired0
    IN  _minutes_to_time(Max(5 * 60, Min(22 * 60, desired)))

\* variant of the availability pass that keeps the day only when it moved it
_enforce_task_against_availability_LosesDay(task, ws, domain, slot_prefs, profile, strict_mode) ==
    LET work_days == _availability_day_indexes(profile.work_days)
        day == IF domain = "work" THEN _ensure_workday(task.scheduled_day, ws, work_days)
               ELSE IF slot_prefs.prefer_weekend /\ Weekday(ws, task.scheduled_day) < 5
               THEN _shift_to_weekend(task.scheduled_day, ws)
               ELSE NoDay
    IN  [task EXCEPT !.scheduled_day = day]

\* _enforce_task_against_availability; slot_pref is the result of
\* category_slot_preferences: [slot_range, prefer_weekend]
_enforce_task_against_availability(task, ws, domain, slot_prefs, profile, strict_mode) ==
    LET work_days == _availability_day_indexes(profile.work_days)
        work_window == <<_time_str_to_minutes(profile.work_start),
                         _time_str_to_minutes(profile.work_end)>>
        day == IF domain = "work" THEN _ensure_workday(task.scheduled_day, ws, work_days)
               ELSE IF slot_prefs.prefer_weekend /\ Weekday(ws, task.scheduled_day) < 5
               THEN _shift_to_weekend(task.scheduled_day, ws)
               ELSE task.scheduled_day
        slot == IF domain = "work"
                THEN _select_work_time(task.scheduled_time, profile, profile.peak_energy = "morning")
                ELSE _select_personal_time(day, ws, task.scheduled_time, profile,
                                           slot_prefs.slot_range, strict_mode, work_window)
    IN  [task EXCEPT !.scheduled_day = day, !.scheduled_time = slot]

\* _apply_availability_rules_to_plan: week_1_tasks and the week-1 section
\* hold the same tasks; later weeks' tasks carry no day
_apply_availability_rules_to_plan(plan, ws, domain, slot_prefs, profile) ==
    LET Enforce(tasks) ==
            [i \in DOMAIN tasks |->
                _enforce_task_against_availability(tasks[i], ws, domain, slot_prefs, profile,
                                                   profile.work_mode_enabled)]
    IN  [plan EXCEPT
            !.week_1_tasks = Enforce(@),
            !.weeks = [w \in DOMAIN @ |->
                          IF @[w].week = 1 THEN [@[w] EXCEPT !.tasks = Enforce(@)] ELSE @[w]]]

-----------------------------------------------------------------------------
(* Plan post-processing *)

Task(title, intent, dur, cadence) ==
    [title |-> title, intent |-> intent, estimated_duration_min |-> dur, cadence |-> cadence]

SETUP_KEYWORDS ==
    {"setup", "set up", "design", "stage", "organize", "prepare", "select", "acquire", "environment"}

_is_setup_task(title) == \E i \in DOMAIN title : title[i] \in SETUP_KEYWORDS

_cadence_supports_consistency(raw_cadence) ==
    LET cadence_type == IF raw_cadence.kind \in {"dict", "str"} THEN Lower(raw_cadence.type) ELSE ""
        number == IF raw_cadence.kind = "dict" THEN raw_cadence.count ELSE 0
    IN  \/ cadence_type \in {"daily", "everyday"}
        \/ cadence_type \in {"x_per_week", "times_per_week"} /\ number >= 3

CONSISTENCY_TEMPLATES ==
    [learning |-> Task(<<"daily", "focused", "study">>,
                       <<"show", "up", "every", "day", "for", "a", "short", "reading", "or", "study", "block">>,
                       30, RawDict("daily", 0, <<>>)),
     habit |-> Task(<<"micro-habit", "repetition">>,
                    <<"reinforce", "the", "habit", "with", "a", "tiny", "repeatable", "action">>,
                    10, RawDict("daily", 0, <<>>)),
     health |-> Task(<<"core", "practice", "block">>,
                     <<"get", "reps", "in", "the", "primary", "movement", "with", "gentle", "volume">>,
                     25, RawDict("x_per_week", 4, <<>>)),
     fitness |-> Task(<<"core", "practice", "block">>,
                      <<"get", "reps", "in", "the", "primary", "movement", "with", "gentle", "volume">>,
                      25, RawDict("x_per_week", 4, <<>>)),
     project |-> Task(<<"daily", "maker", "time">>,
                      <<"reserve", "a", "consistent", "block", "to", "advance", "the", "deliverable", "visibly">>,
                      35, RawDict("x_per_week", 4, <<>>))]

TYPE_DEFAULT_TEMPLATE ==
    [skill |-> "skill_generic", learning |-> "skill_generic", habit |-> "habit",
     health |-> "fitness", fitness |-> "fitness", project |-> "project", work |-> "project"]

_consistency_template_for_type(rtype) ==
    LET normalized == Lower(rtype)
    IN  IF normalized \in DOMAIN CONSISTENCY_TEMPLATES
        THEN CONSISTENCY_TEMPLATES[normalized]
        ELSE IF normalized \in DOMAIN TYPE_DEFAULT_TEMPLATE
                /\ TYPE_DEFAULT_TEMPLATE[normalized] \in DOMAIN CONSISTENCY_TEMPLATES
        THEN CONSISTENCY_TEMPLATES[TYPE_DEFAULT_TEMPLATE[normalized]]
        ELSE CONSISTENCY_TEMPLATES["learning"]

_build_consistency_task(rtype) == _consistency_template_for_type(rtype)

_prepare_week_one_tasks(tasks, rtype, domain) ==
    LET cleaned == [i \in DOMAIN tasks |->
                       IF _is_setup_task(tasks[i].title)
                       THEN [tasks[i] EXCEPT !.estimated_duration_min = Min(@, 20)]
                       ELSE tasks[i]]
        has_consistency == \E i \in DOMAIN tasks : _cadence_supports_consistency(tasks[i].cadence)
    IN  IF ~has_consistency /\ domain # "work"
        THEN Append(cleaned, _build_consistency_task(rtype))
        ELSE cleaned

\* list.sort(key=week_number): stable insertion of week numbers
RECURSIVE SortWeeks(_)
SortWeeks(q) ==
    IF q = <<>> THEN <<>>
    ELSE LET rest == SortWeeks(Tail(q))
             before == SelectSeq(rest, LAMBDA w : w < q[1])
             after == SelectSeq(rest, LAMBDA w : w >= q[1])
         IN  before \o <<q[1]>> \o after

\* _normalize_milestones: a milestone is modelled by its week_number; the
\* raw entries are kept, the weeks of 1..max_weeks not seen are added
_normalize_milestones(raw_entries, target_weeks) ==
    LET max_weeks == Max(1, Min(12, target_weeks))
        seen == Range(raw_entries)
        kept == IF raw_entries = <<>> THEN <<1>> ELSE raw_entries
        seen_weeks == IF raw_entries = <<>> THEN {1} ELSE seen
        missing == SortedSeq({w \in 1..max_weeks : w \notin seen_weeks})
    IN  SortWeeks(kept \o missing)

\* the tasks of the last entry of plan["weeks"] whose week is week_num
ExistingWeekTasks(weeks, week_num) ==
    LET at == {i \in DOMAIN weeks : weeks[i].week = week_num}
    IN  IF at = {} THEN <<>>
        ELSE weeks[CHOOSE i \in at : \A j \in at : j <= i].tasks

\* _post_process_plan
_post_process_plan(raw_plan, rtype, ws, pref_days, hours, target_weeks, domain) ==
    LET normalized_week_one == _prepare_week_one_tasks(raw_plan.week_1_tasks, rtype, domain)
        enriched_week1 == _enrich_tasks_with_schedule(normalized_week_one, rtype, ws, pref_days,
                                                      hours, domain # "work")
        milestones == _normalize_milestones(raw_plan.milestones, target_weeks)
        week_sections ==
            [m \in DOMAIN milestones |->
                [week |-> milestones[m],
                 tasks |-> IF milestones[m] = 1 THEN enriched_week1
                           ELSE ExistingWeekTasks(raw_plan.weeks, milestones[m])]]
    IN  [milestones |-> milestones,
         duration_weeks |-> Max(1, Min(12, target_weeks)),
         week_1_tasks |-> enriched_week1,
         weeks |-> week_sections]

-----------------------------------------------------------------------------
(* Public task data *)

Capitalize(day) ==
    CASE day = "monday" -> "Monday"
      [] day = "tuesday" -> "Tuesday"
      [] day = "wednesday" -> "Wednesday"
      [] day = "thursday" -> "Thursday"
      [] day = "friday" -> "Friday"
      [] day = "saturday" -> "Saturday"
      [] day = "sunday" -> "Sunday"
      [] OTHER -> day

RECURSIVE JoinDays(_)
JoinDays(days) ==
    IF days = <<>> THEN ""
    ELSE Capitalize(days[1]) \o (IF Len(days) > 1 THEN ", " ELSE "") \o JoinDays(Tail(days))

_stringify_cadence(struct) ==
    LET normalized == _normalize_cadence_struct(struct)
        cadence_type == normalized.type
        count == normalized.count
    IN  IF cadence_type = "daily" THEN "daily"
        ELSE IF cadence_type \in {"one_time", "once"} THEN "once"
        ELSE IF cadence_type \in {"x_per_week", "times_per_week"} /\ count # 0
        THEN ToString(count) \o "x per week"
        ELSE IF EndsWithXPerWeek(cadence_type) /\ cadence_type # "x_per_week"
        THEN ToString(PrefixCount(cadence_type)) \o "x per week"
        ELSE IF cadence_type \in {"specific_days"} /\ normalized.days # <<>>
        THEN "Specific days: " \o JoinDays(normalized.days)
        ELSE IF cadence_type = "" THEN "flex" ELSE cadence_type

\* _public_task_data: the cadence rendered as a string, _cadence_struct removed
_public_task_data(task) ==
    IF task.has_struct
    THEN [task EXCEPT !.cadence = RawStr(_stringify_cadence(task.cadence_struct)), !.has_struct = FALSE]
    ELSE IF task.cadence.kind = "dict"
    THEN [task EXCEPT !.cadence = RawStr(_stringify_cadence(task.cadence))]
    ELSE task

PublicTasks(tasks) == [i \in DOMAIN tasks |-> _public_task_data(tasks[i])]

-----------------------------------------------------------------------------
(* Goal requirement extractor; the goal text is its sequence of words *)

\* ACTIVITY_KEYWORDS in dictionary order: <<keyword, activity words>>
ACTIVITY_KEYWORDS ==
    << <<"run", <<"running">> >>, <<"running", <<"running">> >>, <<"jog", <<"running">> >>,
       <<"walk", <<"walking">> >>, <<"walking", <<"walking">> >>,
       <<"yoga", <<"yoga", "practice">> >>,
       <<"meditate", <<"meditation">> >>, <<"meditation", <<"meditation">> >>,
       <<"guitar", <<"guitar", "practice">> >>, <<"piano", <<"piano", "practice">> >>,
       <<"music", <<"music", "practice">> >>,
       <<"strength", <<"strength", "training">> >>, <<"lift", <<"strength", "training">> >>,
       <<"code", <<"coding">> >>, <<"write", <<"writing">> >> >>

KeywordIn(text, keyword) == \E i \in DOMAIN text : text[i] = keyword

\* _detect_activity: the activity of the first keyword found, <<>> for None
_detect_activity(text, rtype) ==
    LET hits == {k \in DOMAIN ACTIVITY_KEYWORDS : KeywordIn(text, ACTIVITY_KEYWORDS[k][1])}
    IN  IF hits # {} THEN ACTIVITY_KEYWORDS[SetMin(hits)][2]
        ELSE IF Lower(rtype) \in {"health", "fitness", "habit"} /\ KeywordIn(text, "run")
        THEN <<"running">>
        ELSE <<>>

\* the number a word of digits stands for, 0 when it is no number
NumberOf(word) ==
    CASE word = "2" -> 2
      [] word = "30" -> 30
      [] word = "45" -> 45
      [] OTHER -> 0

DurationUnits == {"minute", "min", "mins", "minutes", "hour", "hr", "hours"}

\* _extract_duration_minutes: 0 for None
_extract_duration_minutes(text) ==
    LET matches == {i \in DOMAIN text :
                       i < Len(text) /\ NumberOf(text[i]) # 0 /\ text[i + 1] \in DurationUnits}
        value == NumberOf(text[SetMin(matches)])
        hourly == \E i \in DOMAIN text : text[i] \in {"hour", "hr", "hours"}
    IN  IF matches = {} THEN 0
        ELSE IF hourly /\ value <= 3 THEN value * 60
        ELSE value

_refine_resolution_goal(user_text, rtype) ==
    [activity |-> _detect_activity(user_text, rtype),
     target_duration_min |-> _extract_duration_minutes(user_text)]

-----------------------------------------------------------------------------
(* Fallback plan *)

\* SPECIALTY_CONFIG: keywords, types and task templates per key, in
\* dictionary order
SpecialtyOrder == <<"music_skill", "fitness", "habit", "project", "skill_generic", "generic">>

SPECIALTY_CONFIG ==
    [music_skill |->
        [types |-> {"skill", "learning"},
         keywords |-> {"music", "guitar", "piano", "violin", "cello", "drum", "vocal", "sing", "song"},
         tasks |-> <<
            Task(<<"stage", "instrument", "and", "tuner">>,
                 <<"make", "practice", "frictionless", "by", "prepping", "the", "instrument", "corner", "and", "tuner">>,
                 10, RawStr("flex")),
            Task(<<"chromatic", "scale", "warm-up", "(c", "to", "c)">>,
                 <<"rebuild", "finger", "agility", "and", "tone", "before", "diving", "into", "repertoire">>,
                 20, RawDict("specific_days", 0, <<"monday", "wednesday", "friday">>)),
            Task(<<"chord", "progression", "loop", "(i-iv-v)">>,
                 <<"lock", "in", "smooth", "transitions", "at", "a", "sustainable", "tempo">>,
                 25, RawDict("x_per_week", 3, <<>>)) >>],
     fitness |->
        [types |-> {"health", "fitness", "habit"},
         keywords |-> {"run", "running", "cardio", "workout", "gym", "yoga", "strength", "training"},
         tasks |-> <<
            Task(<<"stage", "gym", "gear", "+", "tracker">>,
                 <<"remove", "friction", "by", "prepping", "outfit", "shoes", "and", "your", "logging", "tool">>,
                 10, RawStr("one_time")),
            Task(<<"3x(2", "min", "run", "/", "1", "min", "walk)">>,
                 <<"build", "aerobic", "base", "via", "structured", "intervals", "log", "effort", "1-10", "after", "each", "session">>,
                 30, RawDict("x_per_week", 3, <<>>)),
            Task(<<"full-body", "strength", "circuit">>,
                 <<"alternate", "squats", "pushups", "and", "rows", "to", "build", "strength">>,
                 30, RawDict("x_per_week", 2, <<>>)),
            Task(<<"mobility", "+", "core", "flow">>,
                 <<"encourage", "recovery", "with", "mobility", "work", "and", "light", "core", "activation">>,
                 15, RawDict("x_per_week", 2, <<>>)) >>],
     habit |->
        [types |-> {"habit"},
         keywords |-> {"routine", "mindful", "journal", "sleep", "morning", "evening"},
         tasks |-> <<
            Task(<<"design", "habit", "trigger", "+", "environment">>,
                 <<"pair", "the", "habit", "with", "a", "reliable", "cue", "so", "it", "happens", "automatically">>,
                 10, RawStr("flex")),
            Task(<<"two-minute", "starter", "rep">>,
                 <<"shrink", "the", "habit", "so", "starting", "feels", "effortless">>,
                 5, RawDict("daily", 0, <<>>)),
            Task(<<"evening", "reflection", "note">>,
                 <<"capture", "one", "line", "about", "how", "the", "habit", "felt", "to", "reinforce", "identity">>,
                 5, RawDict("daily", 0, <<>>)) >>],
     project |->
        [types |-> {"project", "work"},
         keywords |-> {"project", "launch", "deck", "presentation", "website", "build"},
         tasks |-> <<
            Task(<<"reset", "workspace", "+", "capture", "blockers">>,
                 <<"clear", "physical", "and", "digital", "distractions", "before", "execution">>,
                 15, RawStr("flex")),
            Task(<<"draft", "outline", "for", "{goal_focus}">>,
                 <<"define", "the", "structure", "of", "the", "week's", "deliverable", "before", "filling", "details">>,
                 30, RawDict("x_per_week", 2, <<>>)),
            Task(<<"ship", "micro-deliverable", "+", "summary">>,
                 <<"finish", "a", "tangible", "slice", "and", "log", "what", "changed">>,
                 30, RawDict("x_per_week", 2, <<>>)) >>],
     skill_generic |->
        [types |-> {"skill", "learning"},
         keywords |-> {},
         tasks |-> <<
            Task(<<"stage", "study/practice", "zone">>,
                 <<"remove", "friction", "by", "prepping", "tools", "notes", "and", "focus", "playlist">>,
                 10, RawStr("flex")),
            Task(<<"deliberate", "practice", "block:", "hardest", "subskill">>,
                 <<"attack", "the", "most", "intimidating", "part", "of", "{goal_focus}", "with", "intention">>,
                 25, RawDict("x_per_week", 3, <<>>)),
            Task(<<"reflection", "+", "adjustments">>,
                 <<"integrate", "lessons", "so", "the", "next", "session", "improves">>,
                 10, RawDict("specific_days", 0, <<"sunday">>)) >>],
     generic |->
        [types |-> {},
         keywords |-> {},
         tasks |-> <<
            Task(<<"clarify", "outcome", "+", "definition", "of", "done">>,
                 <<"write", "down", "what", "success", "looks", "like", "so", "every", "task", "aligns">>,
                 15, RawStr("flex")),
            Task(<<"protect", "one", "focus", "block">>,
                 <<"schedule", "time", "on", "the", "calendar", "dedicated", "to", "the", "goal">>,
                 25, RawDict("x_per_week", 3, <<>>)),
            Task(<<"capture", "insights", "+", "next", "micro-step">>,
                 <<"end", "week", "1", "with", "clarity", "on", "what", "to", "adjust">>,
                 10, RawDict("specific_days", 0, <<"sunday">>)) >>]]

_detect_specialty_key(user_text, rtype) ==
    LET normalized_type == Lower(rtype)
        hits == {k \in DOMAIN SpecialtyOrder :
                    LET config == SPECIALTY_CONFIG[SpecialtyOrder[k]]
                    IN  /\ \E kw \in config.keywords : KeywordIn(user_text, kw)
                        /\ (config.types = {} \/ normalized_type = "" \/ normalized_type \in config.types)}
    IN  IF hits # {} THEN SpecialtyOrder[SetMin(hits)]
        ELSE IF normalized_type \in DOMAIN TYPE_DEFAULT_TEMPLATE
        THEN TYPE_DEFAULT_TEMPLATE[normalized_type]
        ELSE "generic"

\* the first n members of a list: list[:n]
Prefix(q, n) == SubSeq(q, 1, Min(n, Len(q)))

MaxFallbackTasks == 4

\* _fallback_plan
_fallback_plan(user_text, weeks_in, rtype, ws, pref_days, hours) ==
    LET weeks == Max(4, Min(12, IF weeks_in = 0 THEN 8 ELSE weeks_in))
        task_templates == SPECIALTY_CONFIG[_detect_specialty_key(user_text, rtype)].tasks
        enriched_tasks == Prefix(_enrich_tasks_with_schedule(task_templates, rtype, ws, pref_days,
                                                             hours, FALSE),
                                 MaxFallbackTasks)
    IN  [milestones |-> [w \in 1..weeks |-> w],
         duration_weeks |-> weeks,
         week_1_tasks |-> PublicTasks(enriched_tasks),
         weeks |-> [w \in 1..weeks |->
                       [week |-> w,
                        tasks |-> IF w = 1 THEN PublicTasks(enriched_tasks) ELSE <<>>]]]

-----------------------------------------------------------------------------
(* Plan generation state machine: decompose_resolution_with_llm *)

NoPlan == [milestones |-> <<>>, duration_weeks |-> 0, week_1_tasks |-> <<>>, weeks |-> <<>>]
NoEvaluation ==
    [band |-> "", weekly_minutes |-> <<>>, max_tasks_per_day_week1 |-> 0,
     vagueness_flags |-> <<>>, cadence_issues |-> <<>>, budget_violations |-> <<>>,
     overload_warnings |-> <<>>, score |-> 100, passed |-> FALSE, repair_instructions |-> <<>>]
NoResult == [returned |-> FALSE]

sanitized_weeks == Max(4, Min(12, duration_weeks))
refined_goal == _refine_resolution_goal(user_input, resolution_type)

\* ResolutionPlan.model_validate_json: the field constraints of ResolutionPlan,
\* WeeklyMilestone and TaskDraft
SchemaValid(out) ==
    /\ out.kind = "json"
    /\ out.duration_weeks \in 1..12
    /\ Len(out.milestones) \in 1..12
    /\ \A i \in DOMAIN out.milestones : out.milestones[i] \in 1..12
    /\ Len(out.week_1_tasks) >= 1
    /\ \A i \in DOMAIN out.week_1_tasks : out.week_1_tasks[i].estimated_duration_min >= 5
    /\ \A w \in DOMAIN out.weeks :
          \A i \in DOMAIN out.weeks[w].tasks : out.weeks[w].tasks[i].estimated_duration_min >= 5

\* _generate_plan_via_llm on a completion that validates, then
\* _apply_availability_rules_to_plan
ProcessedPlan(out) ==
    _apply_availability_rules_to_plan(
        _post_process_plan(out, resolution_type, weekStartWd, preferred_days, work_hours,
                           sanitized_weeks, resolution_domain),
        weekStartWd, resolution_domain, slot_pref, availability)

FallbackPlan ==
    _apply_availability_rules_to_plan(
        _fallback_plan(user_input, sanitized_weeks, resolution_type, weekStartWd,
                       preferred_days, work_hours),
        weekStartWd, resolution_domain, slot_pref, availability)

Evaluate(plan) == evaluate_plan(plan, band_label, resolution_type, refined_goal)

_finalize_plan(plan, eval, band, repair, regenerate, fallback) ==
    [returned |-> TRUE,
     milestones |-> plan.milestones,
     duration_weeks |-> plan.duration_weeks,
     band |-> band,
     evaluation_summary |->
        [score |-> eval.score,
         band |-> eval.band,
         passed |-> eval.passed,
         weekly_minutes_week1 |-> IF eval.weekly_minutes # <<>> THEN eval.weekly_minutes[1] ELSE 0,
         budget_violations_count |-> Len(eval.budget_violations),
         overload_warnings_count |-> Len(eval.overload_warnings),
         vagueness_flags |-> Prefix(eval.vagueness_flags, 3),
         cadence_issues |-> Prefix(eval.cadence_issues, 3),
         repair_used |-> repair,
         regenerate_used |-> regenerate,
         fallback_used |-> fallback],
     week_1_tasks |-> PublicTasks(plan.week_1_tasks),
     weeks |-> [w \in DOMAIN plan.weeks |->
                   [week |-> plan.weeks[w].week, tasks |-> PublicTasks(plan.weeks[w].tasks)]]]

\* what the Proposer may answer: an exception, or a JSON document
RunTitle == <<"easy", "running", "session">>
RunTask(dur, cadence) ==
    [Task(RunTitle, <<"build", "the", "aerobic", "base">>, dur, cadence)
        EXCEPT !.estimated_duration_min = dur]
Json(milestones, tasks, weeks) ==
    [kind |-> "json", duration_weeks |-> 4, milestones |-> milestones,
     week_1_tasks |-> tasks, weeks |-> weeks]
Daily == RawDict("daily", 0, <<>>)
LaterTask(dur) ==
    [title |-> RunTitle, intent |-> <<>>, estimated_duration_min |-> dur,
     cadence |-> RawStr("flex"), has_struct |-> FALSE]

ProposerOutputs ==
    {[kind |-> "raise"],
     \* fails validation: week_1_tasks needs at least one task
     Json(<<1, 2, 3, 4>>, <<>>, <<>>),
     \* one daily 30-minute session
     Json(<<1, 2, 3, 4>>, <<RunTask(30, Daily)>>, <<>>),
     \* three daily 90-minute runs
     Json(<<1, 2, 3, 4>>, <<RunTask(90, Daily), RunTask(90, Daily), RunTask(90, Daily)>>, <<>>),
     \* two daily 60-minute sessions
     Json(<<1, 2, 3, 4>>, <<RunTask(60, Daily), RunTask(60, Daily)>>, <<>>),
     \* a repeated week and a week past the requested duration
     Json(<<1, 1, 2, 12>>, <<RunTask(30, Daily)>>, <<>>),
     \* a later week that carries 400 minutes of tasks
     Json(<<1, 2>>, <<RunTask(30, Daily)>>, <<[week |-> 2, tasks |-> <<LaterTask(400)>>]>>)}

GoalTexts == {<<"run", "5k">>, <<"run", "45", "minutes", "daily">>}
SlotPrefs == {[slot_range |-> <<>>, prefer_weekend |-> FALSE],
              [slot_range |-> <<8 * 60, 11 * 60>>, prefer_weekend |-> TRUE]}

SchedIdle ==
    /\ daily_load = EmptySched.daily_load
    /\ last_long_day = EmptySched.last_long_day
    /\ daily_time_slots = EmptySched.daily_time_slots
    /\ enriched = EmptySched.enriched
    /\ tasksSeen = 0

GenIdle ==
    /\ pc = "idle"
    /\ client = FALSE
    /\ user_input = <<>>
    /\ duration_weeks = 0
    /\ band_label = "medium"
    /\ resolution_domain = "personal"
    /\ slot_pref = [slot_range |-> <<>>, prefer_weekend |-> FALSE]
    /\ availability = DefaultProfile
    /\ calls = <<>>
    /\ plan_dict = NoPlan
    /\ evaluation = NoEvaluation
    /\ repair_used = FALSE
    /\ regenerate_used = FALSE
    /\ fallback_used = FALSE
    /\ result = NoResult

NoVerdict == [scored |-> FALSE]
EvalIdle ==
    /\ given_plan = NoPlan
    /\ evaluated_plan = NoPlan
    /\ eval_results = <<>>
NoRequest ==
    [seq |-> 0, op |-> "", code |-> 0, user_id |-> "", regenerate |-> FALSE, decision |-> "",
     task_id |-> 0, completed |-> FALSE, plan |-> 0, task_ids |-> {}, was_active |-> FALSE,
     task_edits |-> {}]
ApiIdle ==
    /\ resolution_status = "draft"
    /\ stored_plan = 0
    /\ db_tasks = {}
    /\ next_task_id = 1
    /\ db_logs = <<>>
    /\ generation_runs = 0
    /\ api_response = NoRequest
JobIdle ==
    /\ job_week = 0
    /\ job_snapshots = <<>>
    /\ job_task_rows = 0
    /\ job_runs = <<>>
AvailIdle ==
    /\ scheduled_tasks = <<>>
    /\ enforced_tasks = <<>>
Runners == {"worker", "endpoint"}
NoRun == [pc |-> "idle", user_id |-> "", force |-> FALSE, existing |-> FALSE, created |-> 0]
PlannerIdle ==
    /\ weekly_runs = [r \in Runners |-> NoRun]
    /\ materialized = <<>>
ServiceIdle == EvalIdle /\ ApiIdle /\ JobIdle /\ AvailIdle /\ PlannerIdle
NoStruct == [type |-> "", count |-> 0, days |-> <<>>]
PureIdle ==
    /\ cadence_in = [kind |-> "none", type |-> "", count |-> 0, days |-> <<>>]
    /\ expanded_days = <<>>
    /\ normalized_cadence = NoStruct
    /\ rendered_cadence = ""
    /\ flag_counts = [b |-> 0, v |-> 0, c |-> 0, o |-> 0]
    /\ verdict = NoVerdict

GenInit ==
    /\ weekStartWd \in {0, 5}
    /\ preferred_days = {}
    /\ resolution_type \in {"health", "project"}
    /\ work_hours = <<>>
    /\ repeat_daily = TRUE
    /\ SchedIdle
    /\ pc = "start"
    /\ client \in BOOLEAN
    /\ user_input \in GoalTexts
    /\ duration_weeks \in {2, 6}
    /\ band_label = "medium"
    /\ resolution_domain \in {"personal", "work"}
    /\ slot_pref \in SlotPrefs
    /\ availability = DefaultProfile
    /\ calls = <<>>
    /\ plan_dict = NoPlan
    /\ evaluation = NoEvaluation
    /\ repair_used = FALSE
    /\ regenerate_used = FALSE
    /\ fallback_used = FALSE
    /\ result = NoResult
    /\ PureIdle
    /\ ServiceIdle

genInputs == <<client, user_input, duration_weeks, band_label, resolution_domain, slot_pref,
               availability>>

\* lines 529-558: no client, the fallback plan is built, evaluated and returned
NoClientFallback ==
    /\ pc = "start"
    /\ ~client
    /\ \E plan \in {FallbackPlan} :
          /\ plan_dict' = plan
          /\ evaluation' = Evaluate(plan)
          /\ result' = _finalize_plan(plan, Evaluate(plan), band_label, FALSE, FALSE, TRUE)
    /\ fallback_used' = TRUE
    /\ pc' = "done"
    /\ UNCHANGED <<serviceVars, envVars, schedVars, pureVars, genInputs, calls, repair_used, regenerate_used>>

\* lines 572-584: the first Proposer call is not guarded; an exception or a
\* document that fails validation leaves decompose_resolution_with_llm
Propose ==
    /\ pc = "start"
    /\ client
    /\ \E out \in ProposerOutputs :
          IF SchemaValid(out)
          THEN \E plan \in {ProcessedPlan(out)} :
                  \E eval \in {Evaluate(plan)} :
                        /\ calls' = Append(calls, [op |-> "propose", ok |-> TRUE,
                                                   weekly_minutes |-> eval.weekly_minutes])
                        /\ plan_dict' = plan
                        /\ evaluation' = eval
                        /\ pc' = "evaluated"
          ELSE /\ calls' = Append(calls, [op |-> "propose", ok |-> FALSE, weekly_minutes |-> <<>>])
               /\ pc' = "raised"
               /\ UNCHANGED <<plan_dict, evaluation>>
    /\ UNCHANGED <<serviceVars, envVars, schedVars, pureVars, genInputs, repair_used, regenerate_used, fallback_used, result>>

\* variant of the repair step that does not record that it ran
Repair_NotRecorded ==
    /\ pc = "evaluated"
    /\ ~evaluation.passed /\ evaluation.repair_instructions # <<>>
    /\ pc' = "repaired"
    /\ UNCHANGED <<serviceVars, envVars, schedVars, pureVars, genInputs, calls, plan_dict, evaluation,
                   repair_used, regenerate_used, fallback_used, result>>

\* lines 590-607: _repair_plan_via_llm returns None on any exception
Repair ==
    /\ pc = "evaluated"
    /\ ~evaluation.passed /\ evaluation.repair_instructions # <<>>
    /\ repair_used' = TRUE
    /\ \E out \in ProposerOutputs :
          IF SchemaValid(out)
          THEN \E plan \in {ProcessedPlan(out)} :
                  \E eval \in {Evaluate(plan)} :
                        /\ calls' = Append(calls, [op |-> "repair", ok |-> TRUE,
                                                   weekly_minutes |-> eval.weekly_minutes])
                        /\ plan_dict' = plan
                        /\ evaluation' = eval
          ELSE /\ calls' = Append(calls, [op |-> "repair", ok |-> FALSE, weekly_minutes |-> <<>>])
               /\ UNCHANGED <<plan_dict, evaluation>>
    /\ pc' = "repaired"
    /\ UNCHANGED <<serviceVars, envVars, schedVars, pureVars, genInputs, regenerate_used, fallback_used, result>>

SkipRepair ==
    /\ pc = "evaluated"
    /\ ~(~evaluation.passed /\ evaluation.repair_instructions # <<>>)
    /\ pc' = "repaired"
    /\ UNCHANGED <<serviceVars, envVars, schedVars, pureVars, genInputs, calls, plan_dict, evaluation, repair_used,
                   regenerate_used, fallback_used, result>>

\* variant of the regenerate step that starts over with a propose call
Regenerate_ProposesAgain ==
    /\ pc = "repaired"
    /\ ~evaluation.passed /\ client
    /\ regenerate_used' = TRUE
    /\ calls' = Append(calls, [op |-> "propose", ok |-> FALSE, weekly_minutes |-> <<>>])
    /\ pc' = "regenerated"
    /\ UNCHANGED <<serviceVars, envVars, schedVars, pureVars, genInputs, plan_dict, evaluation, repair_used,
                   fallback_used, result>>

\* lines 609-626: _regenerate_plan_with_feedback returns None on any exception
Regenerate ==
    /\ pc = "repaired"
    /\ ~evaluation.passed /\ client
    /\ regenerate_used' = TRUE
    /\ \E out \in ProposerOutputs :
          IF SchemaValid(out)
          THEN \E plan \in {ProcessedPlan(out)} :
                  \E eval \in {Evaluate(plan)} :
                        /\ calls' = Append(calls, [op |-> "regenerate", ok |-> TRUE,
                                                   weekly_minutes |-> eval.weekly_minutes])
                        /\ plan_dict' = plan
                        /\ evaluation' = eval
          ELSE /\ calls' = Append(calls, [op |-> "regenerate", ok |-> FALSE, weekly_minutes |-> <<>>])
               /\ UNCHANGED <<plan_dict, evaluation>>
    /\ pc' = "regenerated"
    /\ UNCHANGED <<serviceVars, envVars, schedVars, pureVars, genInputs, repair_used, fallback_used, result>>

SkipRegenerate ==
    /\ pc = "repaired"
    /\ ~(~evaluation.passed /\ client)
    /\ pc' = "regenerated"
    /\ UNCHANGED <<serviceVars, envVars, schedVars, pureVars, genInputs, calls, plan_dict, evaluation, repair_used,
                   regenerate_used, fallback_used, result>>

\* variant of the fallback step that returns the fallback plan only when it
\* passes its evaluation
Fallback_OnlyIfPassed ==
    /\ pc = "regenerated"
    /\ ~evaluation.passed
    /\ fallback_used' = TRUE
    /\ \E plan \in {FallbackPlan} :
          /\ plan_dict' = plan
          /\ evaluation' = Evaluate(plan)
          /\ result' = IF Evaluate(plan).passed
                       THEN _finalize_plan(plan, Evaluate(plan), band_label, repair_used,
                                           regenerate_used, TRUE)
                       ELSE NoResult
    /\ pc' = "done"
    /\ UNCHANGED <<serviceVars, envVars, schedVars, pureVars, genInputs, calls, repair_used, regenerate_used>>

\* lines 628-644: the fallback plan replaces the failed plan and is returned
Fallback ==
    /\ pc = "regenerated"
    /\ ~evaluation.passed
    /\ fallback_used' = TRUE
    /\ \E plan \in {FallbackPlan} :
          /\ plan_dict' = plan
          /\ evaluation' = Evaluate(plan)
          /\ result' = _finalize_plan(plan, Evaluate(plan), band_label, repair_used,
                                      regenerate_used, TRUE)
    /\ pc' = "done"
    /\ UNCHANGED <<serviceVars, envVars, schedVars, pureVars, genInputs, calls, repair_used, regenerate_used>>

\* line 644: the plan that passed is returned
Finalize ==
    /\ pc = "regenerated"
    /\ evaluation.passed
    /\ result' = _finalize_plan(plan_dict, evaluation, band_label, repair_used,
                                regenerate_used, fallback_used)
    /\ pc' = "done"
    /\ UNCHANGED <<serviceVars, envVars, schedVars, pureVars, genInputs, calls, plan_dict, evaluation, repair_used,
                   regenerate_used, fallback_used>>

GenNext ==
    \/ NoClientFallback
    \/ Propose
    \/ Repair
    \/ SkipRepair
    \/ Regenerate
    \/ SkipRegenerate
    \/ Fallback
    \/ Finalize

SpecGen == GenInit /\ [][GenNext]_vars

\* the call is synchronous and is not cancelled: a run that has started and
\* has neither returned nor raised executes its next statement
Running == pc \in {"start", "evaluated", "repaired", "regenerated"}
Advance == Running /\ pc' \in {"evaluated", "repaired", "regenerated", "done", "raised"} /\ pc' # pc
SpecGenFair == SpecGen /\ WF_pc(Advance)

-----------------------------------------------------------------------------
(* Cadence expansion on its own: one cadence value is normalised and       *)
(* expanded for one week start.                                            *)

MaxCount == 9
ExpandCounts == (0 - 2)..MaxCount
\* string spellings of "twice a week" a Proposer may use for a cadence
TwiceSynonyms == {"twice per week", "twice_per_week", "2x_per_week"}
ExpandCadences ==
    {RawDict(t, n, <<>>) : t \in {"x_per_week", "times_per_week"}, n \in ExpandCounts}
        \cup {RawStr(t) : t \in TwiceSynonyms}

EnvIdle ==
    /\ preferred_days = {}
    /\ resolution_type = "general"
    /\ work_hours = <<>>
    /\ repeat_daily = TRUE

ExpandInit ==
    /\ weekStartWd \in 0..6
    /\ EnvIdle
    /\ SchedIdle
    /\ GenIdle
    /\ ServiceIdle
    /\ cadence_in \in ExpandCadences
    /\ expanded_days = <<>>
    /\ normalized_cadence = NoStruct
    /\ rendered_cadence = ""
    /\ flag_counts = [b |-> 0, v |-> 0, c |-> 0, o |-> 0]
    /\ verdict = NoVerdict

\* lines 1468-1471 of _enrich_tasks_with_schedule: _build_cadence_struct,
\* then _expand_target_days
ExpandCadence ==
    /\ cadence_in.kind # "none"
    /\ expanded_days = <<>>
    /\ \E cadence_struct \in {_build_cadence_struct(cadence_in)} :
          /\ normalized_cadence' = cadence_struct
          /\ expanded_days' = _expand_target_days(cadence_struct, weekStartWd, repeat_daily)
    /\ UNCHANGED <<serviceVars, envVars, schedVars, genVars, cadence_in, rendered_cadence, scoreVars>>

\* _public_task_data on the clone that carries the struct as _cadence_struct
\* (line 1499): the cadence field becomes _stringify_cadence(struct)
RenderCadence ==
    /\ expanded_days # <<>>
    /\ rendered_cadence = ""
    /\ rendered_cadence' = _stringify_cadence(normalized_cadence)
    /\ UNCHANGED <<serviceVars, envVars, schedVars, genVars, cadence_in, expanded_days, normalized_cadence,
                   scoreVars>>

ExpandNext == ExpandCadence \/ RenderCadence
SpecExpand == ExpandInit /\ [][ExpandNext]_vars

-----------------------------------------------------------------------------
(* The scoring rule on its own: the four issue lists of an evaluation are  *)
(* given by their lengths.                                                 *)

MaxFlags == 4
Tags(n) == [i \in 1..n |-> "flag"]

ScoreInit ==
    /\ weekStartWd = 0
    /\ EnvIdle
    /\ SchedIdle
    /\ GenIdle
    /\ cadence_in = [kind |-> "none", type |-> "", count |-> 0, days |-> <<>>]
    /\ expanded_days = <<>>
    /\ normalized_cadence = NoStruct
    /\ rendered_cadence = ""
    /\ ServiceIdle
    /\ flag_counts \in [b : 0..MaxFlags, v : 0..MaxFlags, c : 0..MaxFlags, o : 0..MaxFlags]
    /\ verdict = NoVerdict

\* lines 134-142 of evaluate_plan
ScorePlan ==
    /\ ~verdict.scored
    /\ \E score \in {ScoreOf(Tags(flag_counts.b), Tags(flag_counts.v), Tags(flag_counts.c),
                             Tags(flag_counts.o))} :
          verdict' = [scored |-> TRUE, score |-> score,
                      passed |-> PassedOf(Tags(flag_counts.b), score)]
    /\ UNCHANGED <<serviceVars, envVars, schedVars, genVars, expandVars, flag_counts>>

ScoreNext == ScorePlan
SpecScore == ScoreInit /\ [][ScoreNext]_vars

-----------------------------------------------------------------------------
(* The evaluator called twice on one plan object. evaluate_plan reads the  *)
(* plan through .get() only and keeps its lists and counters in locals, so *)
(* a call leaves the plan object as it found it.                           *)

ValidOutputs == {out \in ProposerOutputs : SchemaValid(out)}

EvalInit ==
    /\ weekStartWd \in {0, 5}
    /\ preferred_days = {}
    /\ resolution_type \in {"health", "project"}
    /\ work_hours = <<>>
    /\ repeat_daily = TRUE
    /\ SchedIdle
    /\ pc = "idle"
    /\ client = TRUE
    /\ user_input \in GoalTexts
    /\ duration_weeks = 6
    /\ band_label = "medium"
    /\ resolution_domain \in {"personal", "work"}
    /\ slot_pref \in SlotPrefs
    /\ availability = DefaultProfile
    /\ calls = <<>>
    /\ plan_dict = NoPlan
    /\ evaluation = NoEvaluation
    /\ repair_used = FALSE
    /\ regenerate_used = FALSE
    /\ fallback_used = FALSE
    /\ result = NoResult
    /\ PureIdle
    /\ given_plan \in {ProcessedPlan(out) : out \in ValidOutputs} \cup {FallbackPlan}
    /\ evaluated_plan = given_plan
    /\ eval_results = <<>>
    /\ ApiIdle
    /\ JobIdle
    /\ AvailIdle
    /\ PlannerIdle

\* variant of the call that consumes the first week's task list while it sums it
EvaluatePlan_ConsumesTasks ==
    /\ Len(eval_results) < 2
    /\ \E eval \in {Evaluate(evaluated_plan)} : eval_results' = Append(eval_results, eval)
    /\ evaluated_plan' =
          [evaluated_plan EXCEPT !.weeks = [w \in DOMAIN @ |-> [@[w] EXCEPT !.tasks = <<>>]]]
    /\ UNCHANGED <<coreVars, availVars, plannerVars, given_plan, apiVars, jobVars>>

\* one call evaluate_plan(plan, band, resolution_type, goal_requirements)
EvaluatePlan ==
    /\ Len(eval_results) < 2
    /\ \E eval \in {Evaluate(evaluated_plan)} : eval_results' = Append(eval_results, eval)
    /\ UNCHANGED <<coreVars, availVars, plannerVars, given_plan, evaluated_plan, apiVars, jobVars>>

EvalNext == EvaluatePlan
SpecEval == EvalInit /\ [][EvalNext]_vars

-----------------------------------------------------------------------------
(* The evaluator's budget and cadence checks, on the plans the generation  *)
(* hands to it: post-processed Proposer plans of several cadences, task    *)
(* counts and week totals, and the fallback plans of several goal types.   *)

CadenceTask(dur, cadence) == Task(RunTitle, <<"build", "the", "aerobic", "base">>, dur, cadence)
FourWeeks == <<1, 2, 3, 4>>
LaterWeek(week, dur) == [week |-> week, tasks |-> <<LaterTask(dur)>>]
WeekOneChoices ==
    {<<CadenceTask(30, Daily)>>,
     <<CadenceTask(30, RawDict("x_per_week", 5, <<>>))>>,
     <<CadenceTask(30, RawDict("x_per_week", 4, <<>>))>>,
     <<CadenceTask(30, RawDict("specific_days", 0,
                               <<"monday", "tuesday", "wednesday", "thursday", "friday">>))>>,
     <<CadenceTask(30, RawDict("specific_days", 0, <<"monday", "wednesday", "friday">>))>>,
     <<CadenceTask(30, RawStr("flex"))>>,
     <<CadenceTask(30, RawStr("flex")), CadenceTask(20, RawStr("one_time"))>>,
     \* three tasks on every day, the first of them shorter than 15 minutes
     <<CadenceTask(10, Daily), CadenceTask(30, Daily), CadenceTask(30, Daily)>>,
     \* three tasks of 30 minutes on every day
     <<CadenceTask(30, Daily), CadenceTask(30, Daily), CadenceTask(30, Daily)>>,
     \* the occurrences of week 1 sum to exactly 360 minutes, and to 365
     <<CadenceTask(120, RawDict("x_per_week", 3, <<>>))>>,
     <<CadenceTask(120, RawDict("x_per_week", 3, <<>>)), CadenceTask(5, RawStr("flex"))>>}
LaterWeekChoices == {<<>>, <<LaterWeek(2, 360), LaterWeek(3, 365)>>}
GuardOutputs ==
    {Json(FourWeeks, tasks, weeks) : tasks \in WeekOneChoices, weeks \in LaterWeekChoices}
GuardGoals == {<<"run", "5k">>, <<"sleep", "routine">>}

GuardInit ==
    /\ weekStartWd = 0
    /\ preferred_days = {}
    /\ resolution_type \in {"health", "habit", "project"}
    /\ work_hours = <<>>
    /\ repeat_daily = TRUE
    /\ SchedIdle
    /\ pc = "idle"
    /\ client = TRUE
    /\ user_input \in GuardGoals
    /\ duration_weeks = 4
    /\ band_label \in {"medium", "extreme"}
    /\ resolution_domain \in {"personal", "work"}
    /\ slot_pref = [slot_range |-> <<>>, prefer_weekend |-> FALSE]
    /\ availability = DefaultProfile
    /\ calls = <<>>
    /\ plan_dict = NoPlan
    /\ evaluation = NoEvaluation
    /\ repair_used = FALSE
    /\ regenerate_used = FALSE
    /\ fallback_used = FALSE
    /\ result = NoResult
    /\ PureIdle
    /\ given_plan \in {ProcessedPlan(out) : out \in GuardOutputs} \cup {FallbackPlan}
    /\ evaluated_plan = given_plan
    /\ eval_results = <<>>
    /\ ApiIdle
    /\ JobIdle
    /\ AvailIdle
    /\ PlannerIdle

SpecGuard == GuardInit /\ [][EvalNext]_vars

-----------------------------------------------------------------------------
(* The HTTP handlers around one resolution: decompose                      *)
(* (resolutions_decompose.py), approve (resolution_approval.py) and the    *)
(* task completion toggle (task.py). The resolution belongs to Owner;      *)
(* Other is a second user. A task row is modelled by its id, its user_id,  *)
(* the draft and source entries of its metadata, and its completed and     *)
(* completed_at columns (completed_at: whether a timestamp is stored).     *)

MaxRequests == 4
MaxPlanTasks == 2
Owner == "u1"
Other == "u2"
ApiUsers == {Owner, Other}

\* resolution_tasks.is_draft_task and task._is_draft_task
is_draft_task(task) == task.draft /\ task.source = "decomposer_v1"
_is_draft_task(task) == task.draft /\ task.source = "decomposer_v1"

\* resolution_tasks.fetch_draft_tasks for the one resolution
fetch_draft_tasks(table) == {task \in table : is_draft_task(task)}

\* resolution_tasks.delete_existing_draft_tasks
delete_existing_draft_tasks(table) == table \ fetch_draft_tasks(table)

\* _create_tasks_from_plan: one row per week-1 task of the plan
_create_tasks_from_plan(count, first_id) ==
    {[id |-> first_id + k, user_id |-> Owner, draft |-> TRUE, source |-> "ai_decomposer",
      completed |-> FALSE, completed_at |-> FALSE] : k \in 0..(count - 1)}

TaskIds(table) == {task.id : task \in table}
TaskById(table, id) == CHOOSE task \in table : task.id = id

\* list_tasks for one user and one status filter, without its ordering
list_tasks(table, user_id, status) ==
    LET own == {task \in table : task.user_id = user_id}
    IN  IF status = "draft" THEN {task \in own : _is_draft_task(task)}
        ELSE IF status = "active" THEN {task \in own : ~_is_draft_task(task)}
        ELSE own

Request(op, code) == [NoRequest EXCEPT !.seq = api_response.seq + 1, !.op = op, !.code = code]

\* decompose_resolution_endpoint of resolutions_decompose.py, lines 91-143 and
\* 168-182: the cached branch, or a generation run that returns a plan with
\* 1..MaxPlanTasks week-1 tasks or raises
DecomposeEndpoint ==
    /\ api_response.seq < MaxRequests
    /\ \E regenerate \in BOOLEAN :
          LET existing_tasks == fetch_draft_tasks(db_tasks)
          IN  IF stored_plan # 0 /\ existing_tasks # {} /\ ~regenerate
              THEN /\ api_response' = [Request("decompose", 200) EXCEPT
                                          !.regenerate = regenerate, !.plan = stored_plan,
                                          !.task_ids = TaskIds(existing_tasks)]
                   /\ UNCHANGED <<resolution_status, stored_plan, db_tasks, next_task_id, db_logs,
                                  generation_runs>>
              ELSE \/ /\ generation_runs' = generation_runs + 1
                      /\ api_response' = [Request("decompose", 500) EXCEPT !.regenerate = regenerate]
                      /\ UNCHANGED <<resolution_status, stored_plan, db_tasks, next_task_id, db_logs>>
                   \/ \E count \in 1..MaxPlanTasks :
                        LET kept == IF regenerate THEN delete_existing_draft_tasks(db_tasks)
                                    ELSE db_tasks
                            stored == kept \cup _create_tasks_from_plan(count, next_task_id)
                        IN  /\ generation_runs' = generation_runs + 1
                            /\ stored_plan' = generation_runs + 1
                            /\ db_tasks' = stored
                            /\ next_task_id' = next_task_id + count
                            /\ api_response' = [Request("decompose", 200) EXCEPT
                                                   !.regenerate = regenerate,
                                                   !.plan = generation_runs + 1,
                                                   !.task_ids = TaskIds(fetch_draft_tasks(stored))]
                            /\ UNCHANGED <<resolution_status, db_logs>>
    /\ UNCHANGED <<coreVars, availVars, plannerVars, evalVars, jobVars>>

\* payload.task_edits as the set of task ids it names: no edit, an edit of
\* the first task, or an edit naming an id that no task has yet
EditChoices == {{}, {1}, {next_task_id}}

\* variant of the approval that writes a log row for a refused request too
ApproveEndpoint_LogsRefusals ==
    /\ api_response.seq < MaxRequests
    /\ \E user_id \in ApiUsers, decision \in {"accept", "reject", "regenerate"},
          task_edits \in EditChoices :
          /\ api_response' = [Request("approve", IF user_id # Owner THEN 403
                                                  ELSE IF decision = "accept" THEN 409 ELSE 200)
                                 EXCEPT !.user_id = user_id, !.decision = decision,
                                        !.was_active = resolution_status = "active",
                                        !.task_edits = task_edits]
          /\ db_logs' = Append(db_logs, [user_id |-> user_id, task_id |-> 0,
                                          action_type |-> decision])
    /\ UNCHANGED <<coreVars, availVars, plannerVars, evalVars, jobVars, resolution_status, stored_plan,
                   db_tasks, next_task_id, generation_runs>>

\* approve_resolution with _handle_accept, _handle_reject and
\* _handle_regenerate. An accept that passes the four checks reaches line
\* 105, which calls resolution_routes._activate_tasks, a name
\* app/api/routes/resolution.py does not define: the call raises and the
\* request is rolled back
ApproveEndpoint ==
    /\ api_response.seq < MaxRequests
    /\ \E user_id \in ApiUsers, decision \in {"accept", "reject", "regenerate"},
          task_edits \in EditChoices :
          LET Answer(code) == [Request("approve", code) EXCEPT
                                  !.user_id = user_id, !.decision = decision,
                                  !.was_active = resolution_status = "active",
                                  !.task_edits = task_edits]
              Refused(code) == /\ api_response' = Answer(code)
                               /\ UNCHANGED db_logs
              draft_tasks == fetch_draft_tasks(db_tasks)
              tasks_map == {task \in draft_tasks : task.user_id = Owner}
              invalid_edits == task_edits \ TaskIds(tasks_map)
          IN  IF user_id # Owner THEN Refused(403)
              ELSE IF decision = "accept"
              THEN IF resolution_status = "active" THEN Refused(409)
                   ELSE IF stored_plan = 0 THEN Refused(409)
                   ELSE IF draft_tasks = {} THEN Refused(409)
                   ELSE IF invalid_edits # {} THEN Refused(400)
                   ELSE Refused(500)
              ELSE /\ api_response' = Answer(200)
                   /\ db_logs' = Append(db_logs,
                          [user_id |-> Owner, task_id |-> 0,
                           action_type |-> IF decision = "reject" THEN "resolution_rejected"
                                           ELSE "resolution_regenerate_requested"])
    /\ UNCHANGED <<coreVars, availVars, plannerVars, evalVars, jobVars, resolution_status, stored_plan,
                   db_tasks, next_task_id, generation_runs>>

\* variant of the toggle that writes a log for every accepted request
update_task_completion_LogsEveryRequest ==
    /\ api_response.seq < MaxRequests
    /\ \E task_id \in 0..(next_task_id - 1), user_id \in ApiUsers, completed \in BOOLEAN :
          LET Answer(code) == [Request("update_task", code) EXCEPT
                                  !.task_id = task_id, !.user_id = user_id,
                                  !.completed = completed]
          IN  IF task_id \notin TaskIds(db_tasks)
              THEN api_response' = Answer(404) /\ UNCHANGED <<db_tasks, db_logs>>
              ELSE LET task == TaskById(db_tasks, task_id)
                   IN  IF task.user_id # user_id
                       THEN api_response' = Answer(403) /\ UNCHANGED <<db_tasks, db_logs>>
                       ELSE /\ db_tasks' = (db_tasks \ {task}) \cup
                                   {[task EXCEPT !.completed = completed,
                                                 !.completed_at = completed]}
                            /\ db_logs' = Append(db_logs,
                                   [user_id |-> user_id, task_id |-> task_id,
                                    action_type |-> IF completed THEN "task_completed"
                                                    ELSE "task_uncompleted"])
                            /\ api_response' = Answer(200)
    /\ UNCHANGED <<coreVars, availVars, plannerVars, evalVars, jobVars, resolution_status, stored_plan, next_task_id,
                  generation_runs>>

\* update_task_completion of task.py
update_task_completion ==
    /\ api_response.seq < MaxRequests
    /\ \E task_id \in 0..(next_task_id - 1), user_id \in ApiUsers, completed \in BOOLEAN :
          LET Answer(code) == [Request("update_task", code) EXCEPT
                                  !.task_id = task_id, !.user_id = user_id,
                                  !.completed = completed]
          IN  IF task_id \notin TaskIds(db_tasks)
              THEN api_response' = Answer(404) /\ UNCHANGED <<db_tasks, db_logs>>
              ELSE LET task == TaskById(db_tasks, task_id)
                   IN  IF task.user_id # user_id
                       THEN api_response' = Answer(403) /\ UNCHANGED <<db_tasks, db_logs>>
                       ELSE IF task.completed # completed
                       THEN /\ db_tasks' = (db_tasks \ {task}) \cup
                                   {[task EXCEPT !.completed = completed,
                                                 !.completed_at = completed]}
                            /\ db_logs' = Append(db_logs,
                                   [user_id |-> user_id, task_id |-> task_id,
                                    action_type |-> IF completed THEN "task_completed"
                                                    ELSE "task_uncompleted"])
                            /\ api_response' = Answer(200)
                       ELSE api_response' = Answer(200) /\ UNCHANGED <<db_tasks, db_logs>>
    /\ UNCHANGED <<coreVars, availVars, plannerVars, evalVars, jobVars, resolution_status, stored_plan, next_task_id,
                  generation_runs>>

ApiInit ==
    /\ weekStartWd = 0
    /\ EnvIdle
    /\ SchedIdle
    /\ GenIdle
    /\ PureIdle
    /\ EvalIdle
    /\ ApiIdle
    /\ JobIdle
    /\ AvailIdle
    /\ PlannerIdle

ApiNext == DecomposeEndpoint \/ ApproveEndpoint \/ update_task_completion
SpecApi == ApiInit /\ [][ApiNext]_vars

-----------------------------------------------------------------------------
(* The scheduled jobs of job_runner.py: the weekly-plan run and the        *)
(* intervention run for one user, each persisting at most one snapshot row *)
(* per call. Weeks are numbered from the week the clock starts in: the     *)
(* weekly plan is made for the upcoming week, the intervention for the     *)
(* current one. Runs are sequential, each committing before it returns.    *)

MaxRuns == 3
MaxJobWeek == 1
SnapshotScanLimit == 100
MinWeeklyTasks == 3
MaxWeeklyTasks == 5
SnapshotTypes == {"weekly_plan_generated", "intervention_generated"}

\* the last `limit` entries of a sequence: order_by(created_at.desc()).limit(..)
Latest(rows, limit) ==
    IF Len(rows) <= limit THEN rows ELSE SubSeq(rows, Len(rows) - limit + 1, Len(rows))

\* variant of the snapshot lookup that does not compare the week
_find_existing_snapshot_AnyWeek(rows, user_id, action_type, week) ==
    LET mine == SelectSeq(rows, LAMBDA row : row.user_id = user_id /\ row.action_type = action_type)
    IN  Latest(mine, SnapshotScanLimit) # <<>>

\* _find_existing_snapshot of weekly_planner.py and intervention_service.py:
\* whether one of the user's latest rows of that type is for the week
_find_existing_snapshot(rows, user_id, action_type, week) ==
    LET mine == SelectSeq(rows, LAMBDA row : row.user_id = user_id /\ row.action_type = action_type)
        scanned == Latest(mine, SnapshotScanLimit)
    IN  \E i \in DOMAIN scanned : scanned[i].week = week

\* _upcoming_week_window, and the current week of get_intervention_preview
_upcoming_week_window(current) == current + 1
SnapshotWeek(action_type) ==
    IF action_type = "weekly_plan_generated" THEN _upcoming_week_window(job_week) ELSE job_week

RunRecord(user_id, action_type, force, created) ==
    [user_id |-> user_id, action_type |-> action_type, week |-> SnapshotWeek(action_type),
     force |-> force, created |-> created]
SnapshotRow(user_id, action_type) ==
    [user_id |-> user_id, action_type |-> action_type, week |-> SnapshotWeek(action_type)]

\* run_weekly_plan_for_user -> persist_weekly_plan_preview ->
\* run_weekly_planning_for_user
run_weekly_plan_for_user ==
    /\ Len(job_runs) < MaxRuns
    /\ \E user_id \in ApiUsers, force \in BOOLEAN :
          IF ~force /\ _find_existing_snapshot(job_snapshots, user_id, "weekly_plan_generated",
                                               SnapshotWeek("weekly_plan_generated"))
          THEN /\ job_runs' = Append(job_runs,
                                     RunRecord(user_id, "weekly_plan_generated", force, FALSE))
               /\ UNCHANGED <<job_snapshots, job_task_rows>>
          ELSE \E created_tasks \in MinWeeklyTasks..MaxWeeklyTasks :
                   /\ job_task_rows' = job_task_rows + created_tasks
                   /\ job_snapshots' = Append(job_snapshots,
                                              SnapshotRow(user_id, "weekly_plan_generated"))
                   /\ job_runs' = Append(job_runs,
                                         RunRecord(user_id, "weekly_plan_generated", force, TRUE))
    /\ UNCHANGED <<coreVars, availVars, plannerVars, evalVars, apiVars, job_week>>

\* run_interventions_for_user -> persist_intervention_preview
run_interventions_for_user ==
    /\ Len(job_runs) < MaxRuns
    /\ \E user_id \in ApiUsers, force \in BOOLEAN :
          IF ~force /\ _find_existing_snapshot(job_snapshots, user_id, "intervention_generated",
                                               SnapshotWeek("intervention_generated"))
          THEN /\ job_runs' = Append(job_runs,
                                     RunRecord(user_id, "intervention_generated", force, FALSE))
               /\ UNCHANGED job_snapshots
          ELSE /\ job_snapshots' = Append(job_snapshots,
                                          SnapshotRow(user_id, "intervention_generated"))
               /\ job_runs' = Append(job_runs,
                                     RunRecord(user_id, "intervention_generated", force, TRUE))
    /\ UNCHANGED <<coreVars, availVars, plannerVars, evalVars, apiVars, job_week, job_task_rows>>

\* date.today() moves into the next week
NextWeek ==
    /\ job_week < MaxJobWeek
    /\ job_week' = job_week + 1
    /\ UNCHANGED <<coreVars, availVars, plannerVars, evalVars, apiVars, job_snapshots, job_task_rows, job_runs>>

JobInit ==
    /\ weekStartWd = 0
    /\ EnvIdle
    /\ SchedIdle
    /\ GenIdle
    /\ PureIdle
    /\ EvalIdle
    /\ ApiIdle
    /\ JobIdle
    /\ AvailIdle
    /\ PlannerIdle

JobNext == run_weekly_plan_for_user \/ run_interventions_for_user \/ NextWeek
SpecJobs == JobInit /\ [][JobNext]_vars

-----------------------------------------------------------------------------
(* The scheduler run on its own: _enrich_tasks_with_schedule consumes one   *)
(* input task per step.                                                    *)

Title3 == <<"complete", "tempo", "run">>
NoIntent == <<>>
SchedDurations == {10, 30, 90}
SchedCadences ==
    {RawStr("once"), RawDict("daily", 0, <<>>), RawDict("x_per_week", 3, <<>>)}
SchedTasks == {Task(Title3, NoIntent, d, c) : d \in SchedDurations, c \in SchedCadences}
PreferredDayChoices == {{}, {0}, {2, 5}}

BaseTime == _pick_time(_preferred_time_for_resolution(resolution_type, <<>>), work_hours)

SchedInit ==
    /\ weekStartWd \in {0, 1, 5}
    /\ preferred_days \in PreferredDayChoices
    /\ resolution_type = "general"
    /\ work_hours = <<Clock(9, 0), Clock(17, 0)>>
    /\ repeat_daily = TRUE
    /\ daily_load = EmptySched.daily_load
    /\ last_long_day = EmptySched.last_long_day
    /\ daily_time_slots = EmptySched.daily_time_slots
    /\ enriched = EmptySched.enriched
    /\ tasksSeen = 0
    /\ GenIdle
    /\ PureIdle
    /\ ServiceIdle

EnrichTask ==
    /\ tasksSeen < MaxTasks
    /\ \E task \in SchedTasks :
          \E st \in {EnrichOne([daily_load |-> daily_load,
                                last_long_day |-> last_long_day,
                                daily_time_slots |-> daily_time_slots,
                                enriched |-> enriched],
                               task, weekStartWd, preferred_days, BaseTime, repeat_daily)} :
              /\ daily_load' = st.daily_load
              /\ last_long_day' = st.last_long_day
              /\ daily_time_slots' = st.daily_time_slots
              /\ enriched' = st.enriched
    /\ tasksSeen' = tasksSeen + 1
    /\ UNCHANGED <<serviceVars, envVars, genVars, pureVars>>

SchedNext == EnrichTask
SpecSched == SchedInit /\ [][SchedNext]_vars

-----------------------------------------------------------------------------
(* Two callers of run_weekly_planning_for_user at once: the scheduler      *)
(* worker's job and the /weekly-plan/run endpoint, each with a database    *)
(* session of its own. A session reads the rows committed so far; the task *)
(* rows and the snapshot of one run are written by its one db.commit().    *)

RunOf(r) == weekly_runs[r]
StartedRun(user_id, force) ==
    [pc |-> "started", user_id |-> user_id, force |-> force, existing |-> FALSE, created |-> 0]

RaceInit ==
    /\ weekStartWd = 0
    /\ EnvIdle
    /\ SchedIdle
    /\ GenIdle
    /\ PureIdle
    /\ EvalIdle
    /\ ApiIdle
    /\ JobIdle
    /\ AvailIdle
    /\ weekly_runs \in [Runners -> {StartedRun(user_id, force) :
                                        user_id \in ApiUsers, force \in BOOLEAN}]
    /\ materialized = <<>>

\* run_weekly_planning_for_user, lines 177-187: the lookup of this week's
\* snapshot, skipped when force is set
FindSnapshot(r) ==
    /\ RunOf(r).pc = "started"
    /\ weekly_runs' = [weekly_runs EXCEPT
            ![r].pc = "looked_up",
            ![r].existing =
                /\ ~RunOf(r).force
                /\ _find_existing_snapshot(job_snapshots, RunOf(r).user_id, "weekly_plan_generated",
                                            SnapshotWeek("weekly_plan_generated"))]
    /\ UNCHANGED <<coreVars, availVars, evalVars, apiVars, jobVars, materialized>>

\* lines 185-187: the snapshot found is returned
ReturnExisting(r) ==
    /\ RunOf(r).pc = "looked_up"
    /\ RunOf(r).existing
    /\ weekly_runs' = [weekly_runs EXCEPT ![r].pc = "returned"]
    /\ job_runs' = Append(job_runs, RunRecord(RunOf(r).user_id, "weekly_plan_generated",
                                              RunOf(r).force, FALSE))
    /\ UNCHANGED <<coreVars, availVars, evalVars, apiVars, job_week, job_snapshots, job_task_rows,
                   materialized>>

\* lines 189-216: the plan is generated, its 3 to 5 tasks and the snapshot
\* are added to the session and committed together
CommitSnapshot(r) ==
    /\ RunOf(r).pc = "looked_up"
    /\ ~RunOf(r).existing
    /\ \E created_tasks \in MinWeeklyTasks..MaxWeeklyTasks :
          /\ weekly_runs' = [weekly_runs EXCEPT ![r].pc = "returned", ![r].created = created_tasks]
          /\ job_task_rows' = job_task_rows + created_tasks
    /\ job_snapshots' = Append(job_snapshots, SnapshotRow(RunOf(r).user_id, "weekly_plan_generated"))
    /\ job_runs' = Append(job_runs, RunRecord(RunOf(r).user_id, "weekly_plan_generated",
                                              RunOf(r).force, TRUE))
    /\ UNCHANGED <<coreVars, availVars, evalVars, apiVars, job_week, materialized>>

RaceNext == \E r \in Runners : FindSnapshot(r) \/ ReturnExisting(r) \/ CommitSnapshot(r)
SpecRace == RaceInit /\ [][RaceNext]_vars

-----------------------------------------------------------------------------
(* Weekly materialization (weekly_planner.py): the endpoint creates one    *)
(* task row per suggested task of the micro-resolution. Days are offsets   *)
(* from the week_start of the upcoming week, week_end is offset 6.         *)

MaxPlannerRows == 5
NoTime == <<>>
PlanWeek == 0..6
Anchors == <<Clock(9, 0), Clock(13, 0), Clock(19, 0)>>

_map_suggested_time(label) ==
    IF label = "morning" THEN Clock(9, 0)
    ELSE IF label = "afternoon" THEN Clock(13, 0)
    ELSE IF label = "evening" THEN Clock(19, 0)
    ELSE NoTime

\* variant of the time ordering that tries the preferred time only
_time_preferences_PreferredOnly(preferred) == <<preferred>>

\* _time_preferences: the preferred time, then the anchors not yet listed
_time_preferences(preferred) ==
    <<preferred>> \o SelectSeq(Anchors, LAMBDA anchor : anchor # preferred)

\* _load_existing_schedule_map: the times taken on each day of the week by
\* the user's rows that are not drafts and have a day and a time
_load_existing_schedule_map(table, user_id) ==
    [d \in PlanWeek |->
        {row.scheduled_time :
            row \in {t \in table : /\ t.user_id = user_id
                                   /\ t.scheduled_day = d
                                   /\ ~t.draft
                                   /\ t.scheduled_time # NoTime}}]

\* _reserve_available_slot: the day and time reserved, the occupied map
\* after it, and whether a free slot was found
_reserve_available_slot(requested_day, requested_time, occupied) ==
    IF requested_time = NoTime
    THEN [day |-> requested_day, time |-> NoTime, occupied |-> occupied, found |-> FALSE]
    ELSE LET total_days == Cardinality(PlanWeek)
             time_choices == _time_preferences(requested_time)
             CandidateDay(day_offset) ==
                 IF requested_day + day_offset > 6
                 THEN (requested_day + day_offset) % total_days
                 ELSE requested_day + day_offset
             FreeChoices(d) == {k \in DOMAIN time_choices : time_choices[k] \notin occupied[d]}
             ok == {o \in 0..(total_days - 1) : FreeChoices(CandidateDay(o)) # {}}
         IN  IF ok = {}
             THEN [day |-> requested_day, time |-> requested_time, occupied |-> occupied,
                   found |-> FALSE]
             ELSE LET candidate_day == CandidateDay(SetMin(ok))
                      slot == time_choices[SetMin(FreeChoices(candidate_day))]
                  IN  [day |-> candidate_day, time |-> slot,
                       occupied |-> [occupied EXCEPT ![candidate_day] = @ \cup {slot}],
                       found |-> TRUE]

\* a row of the tasks table with its schedule
TaskRow(id, user_id, draft, source, day, time) ==
    [id |-> id, user_id |-> user_id, draft |-> draft, source |-> source,
     completed |-> FALSE, completed_at |-> FALSE, scheduled_day |-> day, scheduled_time |-> time]

\* the loop of _materialize_tasks_from_plan from the suggestion at `index`
\* (counted from 1): the rows created, each with the day and time requested
RECURSIVE MaterializeFrom(_, _, _, _, _)
MaterializeFrom(suggestions, index, occupied, user_id, first_id) ==
    IF index > Len(suggestions) THEN <<>>
    ELSE LET requested_day == (index - 1) % 7
             requested_time == _map_suggested_time(suggestions[index])
             slot == _reserve_available_slot(requested_day, requested_time, occupied)
         IN  <<[task |-> TaskRow(first_id + index - 1, user_id, FALSE, "rolling_wave",
                                 slot.day, slot.time),
                requested_day |-> requested_day,
                requested_time |-> requested_time]>>
             \o MaterializeFrom(suggestions, index + 1, slot.occupied, user_id, first_id)

_materialize_tasks_from_plan(table, user_id, suggestions, first_id) ==
    MaterializeFrom(suggestions, 1, _load_existing_schedule_map(table, user_id), user_id, first_id)

\* the suggested_time labels of the micro-resolutions the planner returns,
\* 3 to 5 tasks after _ensure_task_bounds; "" stands for no label
SuggestionLists ==
    {<<"morning", "evening", "afternoon">>,
     <<"evening", "evening", "evening">>,
     <<"", "evening", "evening", "morning">>,
     <<"morning", "morning", "morning", "morning", "morning">>}

\* weekly_plan_run -> persist_weekly_plan_preview ->
\* run_weekly_planning_for_user: the snapshot lookup, then the task rows and
\* the snapshot in one commit
weekly_plan_run ==
    /\ api_response.seq < MaxRequests
    /\ \E user_id \in ApiUsers, force \in BOOLEAN, suggestions \in SuggestionLists :
          /\ api_response' = [Request("weekly_plan_run", 200) EXCEPT !.user_id = user_id]
          /\ IF ~force /\ _find_existing_snapshot(job_snapshots, user_id, "weekly_plan_generated",
                                                  SnapshotWeek("weekly_plan_generated"))
             THEN /\ job_runs' = Append(job_runs,
                                        RunRecord(user_id, "weekly_plan_generated", force, FALSE))
                  /\ UNCHANGED <<db_tasks, next_task_id, job_snapshots, job_task_rows, materialized>>
             ELSE /\ job_task_rows + Len(suggestions) <= MaxPlannerRows
                  /\ \E created \in {_materialize_tasks_from_plan(db_tasks, user_id, suggestions,
                                                                   next_task_id)} :
                        /\ db_tasks' = db_tasks \cup {created[i].task : i \in DOMAIN created}
                        /\ materialized' = created
                  /\ next_task_id' = next_task_id + Len(suggestions)
                  /\ job_task_rows' = job_task_rows + Len(suggestions)
                  /\ job_snapshots' = Append(job_snapshots,
                                             SnapshotRow(user_id, "weekly_plan_generated"))
                  /\ job_runs' = Append(job_runs,
                                        RunRecord(user_id, "weekly_plan_generated", force, TRUE))
    /\ UNCHANGED <<coreVars, availVars, evalVars, weekly_runs, resolution_status, stored_plan,
                   db_logs, generation_runs, job_week>>

\* the rows the user's week holds before a run: none, every anchor slot of
\* the week, every slot but two of the first day, every 09:00 slot, and
\* another user's full week next to a draft of the owner's
SlotId(d, k) == Len(Anchors) * d + k
FullWeek(user_id) ==
    {TaskRow(SlotId(d, k), user_id, FALSE, "rolling_wave", d, Anchors[k]) :
        d \in PlanWeek, k \in DOMAIN Anchors}
FirstFreeId == SlotId(6, Len(Anchors)) + 2
ExistingSchedules ==
    {{},
     FullWeek(Owner),
     {row \in FullWeek(Owner) : row.scheduled_day # 0 \/ row.scheduled_time = Anchors[3]},
     {row \in FullWeek(Owner) : row.scheduled_time = Anchors[1]},
     FullWeek(Other) \cup {TaskRow(FirstFreeId - 1, Owner, TRUE, "decomposer_v1", 0, Anchors[1])}}

MaterialInit ==
    /\ weekStartWd = 0
    /\ EnvIdle
    /\ SchedIdle
    /\ GenIdle
    /\ PureIdle
    /\ EvalIdle
    /\ JobIdle
    /\ AvailIdle
    /\ PlannerIdle
    /\ resolution_status = "active"
    /\ stored_plan = 0
    /\ db_tasks \in ExistingSchedules
    /\ next_task_id = FirstFreeId
    /\ db_logs = <<>>
    /\ generation_runs = 0
    /\ api_response = NoRequest

MaterialNext == weekly_plan_run
SpecMaterial == MaterialInit /\ [][MaterialNext]_vars

-----------------------------------------------------------------------------
(* The operations that write completed and completed_at of a task row:     *)
(* the completion toggle, activate_tasks, the intervention options         *)
(* reduce_scope and reflect, and the weekly materialization.               *)

\* the order_by of _execute_reduce_scope: rows without a day last, then by
\* day, by time (a missing time last, as PostgreSQL sorts NULL) and by age
TimeKey(time) == IF time = NoTime THEN 24 * 60 ELSE time[1] * 60 + time[2]
SortKey(task) ==
    <<IF task.scheduled_day = NoDay THEN 1 ELSE 0, task.scheduled_day,
      TimeKey(task.scheduled_time), task.id>>
RECURSIVE KeyBefore(_, _)
KeyBefore(a, b) ==
    /\ a # <<>>
    /\ \/ Head(a) < Head(b)
       \/ Head(a) = Head(b) /\ KeyBefore(Tail(a), Tail(b))
_is_draft(task) == task.draft

\* variant of reduce_scope that marks the rows complete without a timestamp
ReduceScope_NoTimestamp(table, user_id) ==
    LET open == {task \in table : task.user_id = user_id /\ ~task.completed /\ ~_is_draft(task)}
        first == {task \in open :
                    Cardinality({u \in open : KeyBefore(SortKey(u), SortKey(task))}) < 2}
    IN  (table \ first) \cup {[task EXCEPT !.completed = TRUE] : task \in first}

\* _execute_reduce_scope: the table after the user's first two open
\* non-draft tasks were marked complete
ReduceScope(table, user_id) ==
    LET open == {task \in table : task.user_id = user_id /\ ~task.completed /\ ~_is_draft(task)}
        first == {task \in open :
                    Cardinality({u \in open : KeyBefore(SortKey(u), SortKey(task))}) < 2}
    IN  (table \ first) \cup
            {[task EXCEPT !.completed = TRUE, !.completed_at = TRUE] : task \in first}

\* execute_intervention_option with the option reduce_scope
_execute_reduce_scope ==
    /\ api_response.seq < MaxRequests
    /\ \E user_id \in ApiUsers :
          /\ db_tasks' = ReduceScope(db_tasks, user_id)
          /\ api_response' = [Request("reduce_scope", 200) EXCEPT !.user_id = user_id]
    /\ UNCHANGED <<coreVars, availVars, plannerVars, evalVars, jobVars, resolution_status,
                   stored_plan, next_task_id, db_logs, generation_runs>>

\* tomorrow as an offset from the upcoming week_start: the day after a
\* Monday, or the day after a Sunday
TomorrowChoices == {0 - 6, 0}

\* execute_intervention_option with the option reflect: completed_at is not
\* given and stays NULL
_execute_reflect ==
    /\ api_response.seq < MaxRequests
    /\ \E user_id \in ApiUsers, tomorrow \in TomorrowChoices :
          /\ db_tasks' = db_tasks \cup
                {TaskRow(next_task_id, user_id, FALSE, "intervention_reflect", tomorrow, Clock(9, 0))}
          /\ api_response' = [Request("reflect", 200) EXCEPT !.user_id = user_id]
    /\ next_task_id' = next_task_id + 1
    /\ UNCHANGED <<coreVars, availVars, plannerVars, evalVars, jobVars, resolution_status,
                   stored_plan, db_logs, generation_runs>>

\* resolution_tasks.activate_tasks on the draft tasks of the resolution
activate_tasks ==
    /\ api_response.seq < MaxRequests
    /\ fetch_draft_tasks(db_tasks) # {}
    /\ db_tasks' = delete_existing_draft_tasks(db_tasks) \cup
            {[task EXCEPT !.draft = FALSE, !.completed = FALSE, !.completed_at = FALSE] :
                task \in fetch_draft_tasks(db_tasks)}
    /\ api_response' = Request("activate_tasks", 200)
    /\ UNCHANGED <<coreVars, availVars, plannerVars, evalVars, jobVars, resolution_status,
                   stored_plan, next_task_id, db_logs, generation_runs>>

\* a database that served requests before. Its table holds the draft tasks
\* of a decomposed resolution, one of them ticked off, and in the fuller case
\* the open tasks of last week's plan and a reflection task
ServedBefore == MaxRequests - 3
DraftTasks ==
    {[TaskRow(1, Owner, TRUE, "decomposer_v1", 0, Clock(9, 0)) EXCEPT
         !.completed = TRUE, !.completed_at = TRUE],
     TaskRow(2, Owner, TRUE, "decomposer_v1", NoDay, NoTime)}
LastWeekTasks ==
    {TaskRow(3, Owner, FALSE, "rolling_wave", 0 - 7, Clock(9, 0)),
     TaskRow(4, Owner, FALSE, "rolling_wave", 0 - 6, Clock(19, 0)),
     TaskRow(5, Owner, FALSE, "rolling_wave", 0 - 5, Clock(13, 0)),
     TaskRow(6, Other, FALSE, "intervention_reflect", 0 - 3, Clock(9, 0))}
LastWeekSnapshot == [user_id |-> Owner, action_type |-> "weekly_plan_generated", week |-> 0]

TasksInit ==
    /\ weekStartWd = 0
    /\ EnvIdle
    /\ SchedIdle
    /\ GenIdle
    /\ PureIdle
    /\ EvalIdle
    /\ AvailIdle
    /\ PlannerIdle
    /\ resolution_status = "draft"
    /\ stored_plan = 1
    /\ generation_runs = 1
    /\ db_logs = <<>>
    /\ api_response = [NoRequest EXCEPT !.seq = ServedBefore]
    /\ job_week = 0
    /\ job_runs = <<>>
    /\ \/ /\ db_tasks = DraftTasks
          /\ job_snapshots = <<>>
          /\ job_task_rows = 0
       \/ /\ db_tasks = DraftTasks \cup LastWeekTasks
          /\ job_snapshots = <<LastWeekSnapshot>>
          /\ job_task_rows = Cardinality({task \in LastWeekTasks : task.source = "rolling_wave"})
    /\ next_task_id = Cardinality(db_tasks) + 1

TasksNext ==
    \/ update_task_completion
    \/ activate_tasks
    \/ _execute_reduce_scope
    \/ _execute_reflect
    \/ weekly_plan_run
SpecTasks == TasksInit /\ [][TasksNext]_vars

\* approval requests on a resolution that is still a draft: not decomposed
\* yet, or decomposed with its draft tasks in the table
ApproveInit ==
    /\ weekStartWd = 0
    /\ EnvIdle
    /\ SchedIdle
    /\ GenIdle
    /\ PureIdle
    /\ EvalIdle
    /\ JobIdle
    /\ AvailIdle
    /\ PlannerIdle
    /\ resolution_status = "draft"
    /\ stored_plan \in {0, 1}
    /\ generation_runs = stored_plan
    /\ db_tasks \in {{}, LastWeekTasks} \cup
                    (IF stored_plan = 0 THEN {} ELSE {DraftTasks, DraftTasks \cup LastWeekTasks})
    /\ next_task_id = Cardinality(DraftTasks \cup LastWeekTasks) + 1
    /\ db_logs = <<>>
    /\ api_response = NoRequest

ApproveNext == ApproveEndpoint
SpecApprove == ApproveInit /\ [][ApproveNext]_vars

-----------------------------------------------------------------------------
(* The availability pass on its own: week-1 tasks come from the scheduler  *)
(* and _apply_availability_rules_to_plan rewrites their days and times for *)
(* a domain, a category preference and an availability profile.            *)

StrictProfile == [DefaultProfile EXCEPT !.work_mode_enabled = TRUE]
AvailProfiles ==
    {DefaultProfile, StrictProfile,
     [DefaultProfile EXCEPT !.work_end = Clock(21, 0)],
     [StrictProfile EXCEPT !.work_end = Clock(21, 0)]}
AvailTaskLists ==
    {<<Task(Title3, NoIntent, 30, RawDict("daily", 0, <<>>))>>,
     <<Task(Title3, NoIntent, 30, RawDict("x_per_week", 3, <<>>)),
       Task(Title3, NoIntent, 30, RawStr("once"))>>,
     <<Task(Title3, NoIntent, 10, RawStr("once")),
       Task(Title3, NoIntent, 30, RawDict("daily", 0, <<>>)),
       Task(Title3, NoIntent, 30, RawDict("daily", 0, <<>>))>>}

AvailInit ==
    /\ weekStartWd \in {0, 5}
    /\ preferred_days = {}
    /\ resolution_type \in {"general", "health"}
    /\ work_hours = <<>>
    /\ repeat_daily = TRUE
    /\ SchedIdle
    /\ pc = "idle"
    /\ client = TRUE
    /\ user_input = <<"run", "5k">>
    /\ duration_weeks = 4
    /\ band_label = "medium"
    /\ resolution_domain \in {"personal", "work"}
    /\ slot_pref \in SlotPrefs
    /\ availability \in AvailProfiles
    /\ calls = <<>>
    /\ plan_dict = NoPlan
    /\ evaluation = NoEvaluation
    /\ repair_used = FALSE
    /\ regenerate_used = FALSE
    /\ fallback_used = FALSE
    /\ result = NoResult
    /\ PureIdle
    /\ EvalIdle
    /\ ApiIdle
    /\ JobIdle
    /\ PlannerIdle
    /\ scheduled_tasks \in {_enrich_tasks_with_schedule(tasks, resolution_type, weekStartWd,
                                                        preferred_days, work_hours, repeat_daily) :
                               tasks \in AvailTaskLists}
    /\ enforced_tasks = <<>>

\* _apply_availability_rules_to_plan on a plan that holds the scheduled tasks
ApplyAvailability ==
    /\ enforced_tasks = <<>>
    /\ \E plan \in {_apply_availability_rules_to_plan(
                         [NoPlan EXCEPT !.week_1_tasks = scheduled_tasks,
                                        !.weeks = <<[week |-> 1, tasks |-> scheduled_tasks]>>],
                         weekStartWd, resolution_domain, slot_pref, availability)} :
          enforced_tasks' = plan.week_1_tasks
    /\ UNCHANGED <<coreVars, plannerVars, evalVars, apiVars, jobVars, scheduled_tasks>>

AvailNext == ApplyAvailability
SpecAvail == AvailInit /\ [][AvailNext]_vars

(* Claims about the slot scheduler *)

Occ == DOMAIN enriched
HeavyOn(d) == {i \in Occ : enriched[i].scheduled_day = d /\ enriched[i].estimated_duration_min >= HeavyMinutes}
IsLong(i) == enriched[i].estimated_duration_min > LongMinutes
Apart(i, j) ==
    \/ enriched[i].scheduled_day - enriched[j].scheduled_day >= 2
    \/ enriched[j].scheduled_day - enriched[i].scheduled_day >= 2

\* C7 as claimed: no calendar day holds more than 2 occurrences of at least
\* 15 minutes
C7_AtMostTwoHeavyPerDay == \A d \in Days : Cardinality(HeavyOn(d)) <= 2

\* C8 as claimed: no two occurrences longer than 60 minutes are on the same
\* day or on adjacent days
C8_LongOccurrencesApart ==
    \A i, j \in Occ : (i < j /\ IsLong(i) /\ IsLong(j)) => Apart(i, j)

\* C9 as claimed: no two occurrences on the same day have the same time
C9_DistinctTimesPerDay ==
    \A i, j \in Occ :
        (i < j /\ enriched[i].scheduled_day = enriched[j].scheduled_day)
            => enriched[i].scheduled_time # enriched[j].scheduled_time

\* the occurrences whose day search ended without a day (assigned to their
\* target day) and those that found no free time among the candidates
DayForced(i) == ~enriched[i].day_found
TimeForced(i) == ~enriched[i].slot_free

\* C7 (amended): a day exceeds 2 occurrences of at least 15 minutes only by
\* occurrences force-assigned to it after an exhausted day search
C7_AtMostTwoHeavyUnlessForced ==
    \A d \in Days :
        Cardinality(HeavyOn(d)) <= 2 + Cardinality({i \in HeavyOn(d) : DayForced(i)})

C7_Witness ==
    \E i \in Occ, d \in Days :
        /\ enriched[i].estimated_duration_min >= HeavyMinutes
        /\ enriched[i].day_found
        /\ enriched[i].target_day = d
        /\ enriched[i].scheduled_day > d
        /\ Cardinality(HeavyOn(d)) = 2

\* C8 (amended): up to the first long occurrence whose day search is
\* exhausted, long occurrences are pairwise at least 2 days apart; three
\* 90-minute tasks all targeted at day 0 end on pairwise non-adjacent days
ThreeLongAtDayZero ==
    /\ Len(enriched) = 3
    /\ \A i \in Occ : enriched[i].estimated_duration_min = 90 /\ enriched[i].target_day = 0
C8_LongApartUntilForced ==
    /\ \A i, j \in Occ :
          (/\ i < j /\ IsLong(i) /\ IsLong(j)
           /\ \A k \in 1..j : IsLong(k) => ~DayForced(k))
              => Apart(i, j)
    /\ ThreeLongAtDayZero => \A i, j \in Occ : i < j => Apart(i, j)

C8_Witness ==
    /\ ThreeLongAtDayZero
    /\ \A i \in Occ : ~DayForced(i)
    /\ enriched[3].scheduled_day >= 4

\* C9 (amended): two occurrences on the same day share a time only when the
\* later one found all 5 candidate times taken and received the default time
C9_DistinctTimesUnlessForced ==
    \A i, j \in Occ :
        (/\ i < j
         /\ enriched[i].scheduled_day = enriched[j].scheduled_day
         /\ enriched[i].scheduled_time = enriched[j].scheduled_time)
            => TimeForced(j)

C9_Witness ==
    \E d \in Days :
        /\ Cardinality({i \in Occ : enriched[i].scheduled_day = d}) >= 5
        /\ Cardinality(daily_time_slots[d]) = 5
        /\ \A i \in Occ : enriched[i].scheduled_day = d => ~TimeForced(i)

-----------------------------------------------------------------------------
(* Claims about the day search, stated on the list of placed occurrences   *)
(* alone: what an occurrence saw is rebuilt from the occurrences before it *)

\* the heavy occurrences placed on day d before occurrence i, and the day of
\* the last long occurrence placed before i
HeavyBefore(i, d) == {j \in HeavyOn(d) : j < i}
LongBefore(i) == {j \in Occ : j < i /\ IsLong(j)}
LastLongBefore(i) ==
    IF LongBefore(i) = {} THEN NoDay
    ELSE enriched[CHOOSE j \in LongBefore(i) : \A k \in LongBefore(i) : k <= j].scheduled_day
LoadAndSpacingOk(i, d) ==
    /\ Cardinality(HeavyBefore(i, d)) < 2
    /\ ~(IsLong(i) /\ LastLongBefore(i) # NoDay /\ d - LastLongBefore(i) <= 1)
PreferenceOk(d) == preferred_days = {} \/ Weekday(weekStartWd, d) \in preferred_days
SearchWindow(i) == enriched[i].target_day..(enriched[i].target_day + 20)
FirstOrTarget(i, ok) == IF ok # {} THEN SetMin(ok) ELSE enriched[i].target_day

\* C20 as claimed: every occurrence is on the first of the 21 days from its
\* target day that satisfies the load and spacing rules, and on its target
\* day when none of them does; no occurrence is dropped
C20_FirstDayByLoadAndSpacing ==
    /\ Len(enriched) >= tasksSeen
    /\ \A i \in Occ :
          enriched[i].scheduled_day =
              FirstOrTarget(i, {d \in SearchWindow(i) : LoadAndSpacingOk(i, d)})

\* C20 (amended): every occurrence is on the first of the 21 days from its
\* target day that is a preferred weekday (when preferred days are given) and
\* satisfies the load and spacing rules, and on its target day when none of
\* them does; no occurrence is dropped
C20_FirstAcceptedDayOrTarget ==
    /\ Len(enriched) >= tasksSeen
    /\ \A i \in Occ :
          /\ enriched[i].scheduled_day \in Days
          /\ enriched[i].scheduled_day =
                FirstOrTarget(i, {d \in SearchWindow(i) : PreferenceOk(d) /\ LoadAndSpacingOk(i, d)})

\* one occurrence was moved more than a week past its target day and another
\* found none of its 21 days acceptable
C20_Witness ==
    /\ \E i \in Occ : enriched[i].day_found /\ enriched[i].scheduled_day > enriched[i].target_day + 7
    /\ \E i \in Occ : ~enriched[i].day_found /\ enriched[i].scheduled_day = enriched[i].target_day

-----------------------------------------------------------------------------
(* Claims about plan generation *)

CallOps == [i \in DOMAIN calls |-> calls[i].op]
ProposerOrder == <<"propose", "repair", "regenerate">>
Finished == pc \in {"done", "raised"}

\* C1: the Proposer is called at most 3 times, at most one propose, then at
\* most one repair, then at most one regenerate, in that order, and the run
\* of decompose_resolution_with_llm terminates
C1_AtMostThreeCallsInOrder ==
    /\ [](/\ Len(calls) <= 3
          /\ \A i \in DOMAIN calls : CallOps[i] = ProposerOrder[i])
    /\ <>Finished

C1_Witness ==
    /\ pc = "done"
    /\ CallOps = ProposerOrder
    /\ result.returned

\* C2 as claimed: a Proposer failure never reaches the caller; a failed first
\* propose call goes directly to Fallback, a failed repair or regenerate call
\* routes to the next state, and a finalized plan is returned in each case
C2_ProposerFailureNeverReachesCaller ==
    /\ pc # "raised"
    /\ (calls # <<>> /\ ~calls[1].ok) => Len(calls) = 1
    /\ (pc = "done" /\ calls # <<>> /\ ~calls[1].ok) => fallback_used
    /\ pc = "done" => result.returned

WeeksOf(plan) == 1..plan.duration_weeks
MilestonesFor(plan, w) == {i \in DOMAIN plan.milestones : plan.milestones[i] = w}

\* C3 as claimed: every returned plan has a milestone list of length
\* duration_weeks with one milestone for each week 1..duration_weeks, and a
\* non-empty week-1 task list
C3_OneMilestonePerWeek ==
    result.returned =>
        /\ Len(result.milestones) = result.duration_weeks
        /\ \A w \in WeeksOf(result) : Cardinality(MilestonesFor(result, w)) = 1
        /\ result.week_1_tasks # <<>>

\* C4: the step that enters Fallback returns the fallback plan whatever its
\* evaluation says, without a Proposer call, and no step follows it
C4_FallbackIsFinal ==
    [][/\ ~fallback_used
       /\ fallback_used' =>
             /\ pc' = "done"
             /\ result'.returned
             /\ result'.week_1_tasks = PublicTasks(FallbackPlan.week_1_tasks)
             /\ result'.evaluation_summary.fallback_used
             /\ result'.evaluation_summary.passed = evaluation'.passed
             /\ calls' = calls]_vars

C4_Witness ==
    /\ pc = "done"
    /\ fallback_used
    /\ Len(calls) = 3
    /\ ~evaluation.passed
    /\ result.returned
    /\ ~result.evaluation_summary.passed

\* C5: score = max(0, 100 - 30b - 5v - 5c - 15o); passed exactly when
\* (b = 0 and score >= 50) or (b = 1 and score >= 60); one budget violation
\* alone scores 70 and passes, two budget violations score at most 40 and fail
C5_ScoreAndPassRule ==
    verdict.scored =>
        LET b == flag_counts.b
            v == flag_counts.v
            c == flag_counts.c
            o == flag_counts.o
            raw == 100 - 30 * b - 5 * v - 5 * c - 15 * o
        IN  /\ verdict.score = (IF raw < 0 THEN 0 ELSE raw)
            /\ verdict.passed <=> ((b = 0 /\ verdict.score >= 50) \/ (b = 1 /\ verdict.score >= 60))
            /\ (b = 1 /\ v = 0 /\ c = 0 /\ o = 0) => (verdict.score = 70 /\ verdict.passed)
            /\ b = 2 => (verdict.score <= 40 /\ ~verdict.passed)

C5_Witness ==
    /\ verdict.scored
    /\ flag_counts = [b |-> 1, v |-> 0, c |-> 0, o |-> 0]
    /\ verdict.score = 70
    /\ verdict.passed

WeekCap == (6 * EFFORT_BAND_BUDGETS.medium.weekly_minutes) \div 5
OverWeekCap(weekly_minutes) == \E w \in DOMAIN weekly_minutes : weekly_minutes[w] > WeekCap
ProposedOverWeekCap == \E i \in DOMAIN calls : OverWeekCap(calls[i].weekly_minutes)

\* C6 as claimed: when the Proposer has given a plan with a week total above
\* 1.2 x the weekly cap, the plan returned is either a Proposer plan with
\* every week total at most 1.2 x the cap, or the fallback plan, and then it
\* has no budget violation: every week total at most 1.2 x the cap and the
\* week-1 tasks per day within the band's upper bound
C6_OverBudgetNeverReturned ==
    (pc = "done" /\ ProposedOverWeekCap) =>
        /\ ~OverWeekCap(evaluation.weekly_minutes)
        /\ fallback_used =>
              /\ evaluation.max_tasks_per_day_week1 <= EFFORT_BAND_BUDGETS.medium.tasks_per_day[2]
              /\ evaluation.budget_violations = <<>>

-----------------------------------------------------------------------------
(* Claims about cadence expansion *)

ResolvedDay(task) == "scheduled_day" \in DOMAIN task /\ task.scheduled_day \in Nat
ResolvedTime(task) ==
    "scheduled_time" \in DOMAIN task /\ task.scheduled_time \in (0..23) \X (0..59)
IsFlex(task) == task.cadence.type = "flex"

\* C12: in every returned plan each week-1 task has a resolved day, and each
\* week-1 task whose cadence is not flex has a resolved time
C12_WeekOneTasksResolved ==
    result.returned =>
        \A i \in DOMAIN result.week_1_tasks :
            /\ ResolvedDay(result.week_1_tasks[i])
            /\ ~IsFlex(result.week_1_tasks[i]) => ResolvedTime(result.week_1_tasks[i])

\* a plan returned for a personal goal that holds a flex task and a task whose
\* cadence is not flex
C12_Witness ==
    /\ result.returned
    /\ \E i \in DOMAIN result.week_1_tasks : ~IsFlex(result.week_1_tasks[i])
    /\ \E i \in DOMAIN result.week_1_tasks : IsFlex(result.week_1_tasks[i])
    /\ resolution_domain = "personal"

ClampedCount == Max(1, Min(7, cadence_in.count))
Abs(x) == IF x < 0 THEN 0 - x ELSE x

\* C10: x_per_week(n) expands to exactly n distinct days within the week, at
\* the offsets round(i*7/n) for i = 0..n-1 in increasing order (n = 3: 0, 2,
\* 5); a count above 7 expands as 7 and a count below 1 as 1
C10_EvenlySpacedOffsets ==
    (expanded_days # <<>> /\ cadence_in.kind = "dict") =>
        LET n == ClampedCount
        IN  /\ Len(expanded_days) = n
            /\ \A k \in 1..n : expanded_days[k] \in 0..6
            /\ \A k \in 1..(n - 1) : expanded_days[k] < expanded_days[k + 1]
            /\ \A k \in 1..n : 2 * Abs(n * expanded_days[k] - 7 * (k - 1)) <= n
            /\ n = 3 => expanded_days = <<0, 2, 5>>
            /\ cadence_in.count > 7 => expanded_days = <<0, 1, 2, 3, 4, 5, 6>>
            /\ cadence_in.count < 1 => expanded_days = <<0>>

C10_Witness ==
    /\ cadence_in.count = 3
    /\ weekStartWd = 0
    /\ expanded_days = <<0, 2, 5>>

\* the rendered strings that name a count above 7
OverSevenStrings == {ToString(n) \o "x per week" : n \in 8..(MaxCount + 1)}

\* C11: a normalized cadence that carries a count carries a positive integer
\* no greater than 7, whatever count was supplied, and the cadence string of
\* the returned task never names a count above 7
C11_CountAtMostSeven ==
    /\ expanded_days # <<>> =>
            (normalized_cadence.count # 0 => normalized_cadence.count \in 1..7)
    /\ rendered_cadence \notin OverSevenStrings

\* C19: the string synonyms for twice a week normalize to x_per_week with
\* count 2 and expand to 2 target days
C19_TwiceSynonymsNormalize ==
    (expanded_days # <<>> /\ cadence_in.kind = "str" /\ cadence_in.type \in TwiceSynonyms) =>
        /\ normalized_cadence.type = "x_per_week"
        /\ normalized_cadence.count = 2
        /\ Len(expanded_days) = 2

-----------------------------------------------------------------------------
(* Claims about the HTTP handlers *)

\* C14: a decompose call without regenerate that follows a successful
\* decompose call returns the stored plan and the same draft-task ids, runs no
\* plan generation, and creates or deletes no task
C14_SecondDecomposeIsCachedRead ==
    [][(/\ api_response.op = "decompose"
        /\ api_response.code = 200
        /\ api_response'.seq = api_response.seq + 1
        /\ api_response'.op = "decompose"
        /\ ~api_response'.regenerate)
       => (/\ api_response'.code = 200
           /\ api_response'.plan = api_response.plan
           /\ api_response'.task_ids = api_response.task_ids
           /\ generation_runs' = generation_runs
           /\ db_tasks' = db_tasks)]_vars

\* C15: a successful decompose call with regenerate = true on a decomposed
\* resolution leaves exactly the draft tasks of the new plan stored: none of
\* the earlier tasks remains, the returned ids are the ids of the stored tasks
\* and differ from the earlier ones, and as many tasks are stored as returned
C15_RegenerateReplacesDraftTasks ==
    [][(/\ stored_plan # 0
        /\ api_response'.seq = api_response.seq + 1
        /\ api_response'.op = "decompose"
        /\ api_response'.regenerate
        /\ api_response'.code = 200)
       => (/\ db_tasks' \cap db_tasks = {}
           /\ \A task \in db_tasks' : task.draft
           /\ api_response'.task_ids = TaskIds(db_tasks')
           /\ api_response'.task_ids \cap TaskIds(db_tasks) = {}
           /\ Cardinality(db_tasks') = Cardinality(api_response'.task_ids))]_vars

\* C16: an accept decision by the owner on a decomposed resolution that is not
\* yet active succeeds, leaves the status active and every task of the
\* resolution active with completed = false, and the owner's active listing is
\* exactly those tasks
C16_OwnerAcceptActivatesDrafts ==
    (/\ api_response.op = "approve"
     /\ api_response.decision = "accept"
     /\ api_response.user_id = Owner
     /\ ~api_response.was_active
     /\ stored_plan # 0)
    => (/\ api_response.code = 200
        /\ resolution_status = "active"
        /\ db_tasks # {}
        /\ \A task \in db_tasks : ~task.draft /\ ~task.completed
        /\ list_tasks(db_tasks, Owner, "active") = db_tasks
        /\ list_tasks(db_tasks, Owner, "draft") = {})

\* C18: a completion request for an existing task is refused with 403 and
\* changes neither tasks nor logs when the requester does not own the task;
\* from the owner it succeeds, changes nothing and logs nothing when the flag
\* already has the requested value, and otherwise sets the flag, sets
\* completed_at exactly when completing, leaves every other task alone and
\* appends exactly one log, task_completed or task_uncompleted
C18_CompletionToggle ==
    [][(/\ api_response'.seq = api_response.seq + 1
        /\ api_response'.op = "update_task"
        /\ api_response'.task_id \in TaskIds(db_tasks))
       => LET before == TaskById(db_tasks, api_response'.task_id)
              wanted == api_response'.completed
          IN  IF api_response'.user_id # before.user_id
              THEN api_response'.code = 403 /\ db_tasks' = db_tasks /\ db_logs' = db_logs
              ELSE IF before.completed = wanted
              THEN api_response'.code = 200 /\ db_tasks' = db_tasks /\ db_logs' = db_logs
              ELSE /\ api_response'.code = 200
                   /\ db_tasks' = (db_tasks \ {before}) \cup
                         {[before EXCEPT !.completed = wanted, !.completed_at = wanted]}
                   /\ Len(db_logs') = Len(db_logs) + 1
                   /\ SubSeq(db_logs', 1, Len(db_logs)) = db_logs
                   /\ db_logs'[Len(db_logs')].task_id = before.id
                   /\ db_logs'[Len(db_logs')].action_type =
                         IF wanted THEN "task_completed" ELSE "task_uncompleted"]_vars

\* a task was completed and un-completed by its owner, the owner then repeated
\* the last request, and a request of the other user was refused
C18_Witness ==
    /\ Len(db_logs) = 2
    /\ db_logs[1].action_type = "task_completed"
    /\ db_logs[2].action_type = "task_uncompleted"
    /\ db_logs[1].task_id = db_logs[2].task_id
    /\ api_response.op = "update_task"
    /\ api_response.code \in {200, 403}
    /\ api_response.task_id = db_logs[2].task_id
    /\ api_response.seq = MaxRequests

-----------------------------------------------------------------------------
(* Claims about the scheduled jobs *)

RunsFor(user_id, action_type, week) ==
    SelectSeq(job_runs, LAMBDA run : run.user_id = user_id /\ run.action_type = action_type
                                      /\ run.week = week)
SnapshotsFor(user_id, action_type, week) ==
    SelectSeq(job_snapshots, LAMBDA row : row.user_id = user_id /\ row.action_type = action_type
                                           /\ row.week = week)
JobWeeks == 0..(MaxJobWeek + 1)

\* C17: for each user, snapshot type and week, a run without force reports
\* created exactly when no snapshot of that type existed for the week before
\* it, a run with force always reports created, the snapshots stored are one
\* per run that reported created, and after non-forced runs only there is
\* exactly one snapshot
C17_SnapshotPerWeekUnlessForced ==
    \A user_id \in ApiUsers, action_type \in SnapshotTypes, week \in JobWeeks :
        LET runs == RunsFor(user_id, action_type, week)
            stored == Len(SnapshotsFor(user_id, action_type, week))
            forced == Cardinality({i \in DOMAIN runs : runs[i].force})
        IN  /\ \A i \in DOMAIN runs :
                  runs[i].created = (runs[i].force \/ \A j \in 1..(i - 1) : ~runs[j].created)
            /\ stored = Cardinality({i \in DOMAIN runs : runs[i].created})
            /\ (runs # <<>> /\ forced = 0) => stored = 1
            /\ runs # <<>> => stored = forced + (IF runs[1].force THEN 0 ELSE 1)

\* after the clock moved into week 1, a user's weekly-plan run without force
\* stored the plan of week 2, its repetition stored nothing, and a forced run
\* stored a second one
C17_Witness ==
    /\ Len(job_runs) = 3
    /\ \A i \in 1..3 : /\ job_runs[i].user_id = Owner
                       /\ job_runs[i].action_type = "weekly_plan_generated"
                       /\ job_runs[i].week = 2
    /\ ~job_runs[1].force /\ job_runs[1].created
    /\ ~job_runs[2].force /\ ~job_runs[2].created
    /\ job_runs[3].force /\ job_runs[3].created
    /\ Len(SnapshotsFor(Owner, "weekly_plan_generated", 2)) = 2

-----------------------------------------------------------------------------
(* Claims about the evaluator's checks *)

BandBudget ==
    IF band_label \in DOMAIN EFFORT_BAND_BUDGETS THEN EFFORT_BAND_BUDGETS[band_label]
    ELSE EFFORT_BAND_BUDGETS["medium"]
WeekMinutes(w) ==
    SumSeq([i \in DOMAIN given_plan.weeks[w].tasks |->
               given_plan.weeks[w].tasks[i].estimated_duration_min])
WeeksOverBudget == {w \in DOMAIN given_plan.weeks : 5 * WeekMinutes(w) > 6 * BandBudget.weekly_minutes}
WeekOne == given_plan.weeks[1].tasks
CountedOn(d) ==
    Cardinality({i \in DOMAIN WeekOne : WeekOne[i].estimated_duration_min >= 15
                                        /\ WeekOne[i].scheduled_day = d})
DayOverBound == \E i \in DOMAIN WeekOne : CountedOn(WeekOne[i].scheduled_day) > BandBudget.tasks_per_day[2]

\* C21: every evaluation carries one budget violation per week whose minutes
\* exceed 1.2 x the weekly cap of the band (of the medium band when the band
\* name is unknown), plus one when some day holds more week-1 tasks of at
\* least 15 minutes than the band's tasks-per-day upper bound, and no other
C21_BudgetViolations ==
    \A k \in DOMAIN eval_results :
        /\ Len(eval_results[k].budget_violations) =
               Cardinality(WeeksOverBudget) + (IF DayOverBound THEN 1 ELSE 0)
        /\ eval_results[k].band \in DOMAIN EFFORT_BAND_BUDGETS
        /\ band_label \notin DOMAIN EFFORT_BAND_BUDGETS => eval_results[k].band = "medium"

\* a plan evaluated under an unknown band name: its week of exactly 360
\* minutes is not reported, its two weeks above 360 minutes are, and a day
\* with three week-1 tasks of which one is shorter than 15 minutes is not
C21_Witness ==
    /\ eval_results # <<>>
    /\ band_label = "extreme"
    /\ \E w \in DOMAIN given_plan.weeks : WeekMinutes(w) = 360
    /\ \E w \in DOMAIN given_plan.weeks : WeekMinutes(w) = 365
    /\ Cardinality({w \in DOMAIN given_plan.weeks : WeekMinutes(w) > 360}) = 2
    /\ \E i \in DOMAIN WeekOne :
          /\ Cardinality({j \in DOMAIN WeekOne : WeekOne[j].scheduled_day = WeekOne[i].scheduled_day}) = 3
          /\ CountedOn(WeekOne[i].scheduled_day) = 2
    /\ Len(eval_results[1].budget_violations) = 2

\* the cadences a rendered cadence string can stand for
RenderedStructs ==
    {[type |-> t, count |-> 0, days |-> <<>>] : t \in {"daily", "flex", "once"}}
    \cup {[type |-> "x_per_week", count |-> n, days |-> <<>>] : n \in 1..7}
    \cup {[type |-> "specific_days", count |-> 0, days |-> d] :
             d \in {<<"sunday">>, <<"monday", "wednesday", "friday">>}}
CadenceOf(task) ==
    IF task.has_struct THEN task.cadence_struct
    ELSE CHOOSE struct \in RenderedStructs : _stringify_cadence(struct) = task.cadence.type
RepeatingCadence(struct) ==
    \/ struct.type = "daily"
    \/ struct.type = "x_per_week" /\ struct.count >= 5
    \/ struct.type = "specific_days" /\ Len(struct.days) >= 5
TypedGoal == resolution_type \in {"habit", "learning", "health", "skill"}
IssueCount(issues, tag) == Cardinality({i \in DOMAIN issues : issues[i] = tag})

\* C22: for the types habit, learning, health and skill an evaluation
\* records the repeating-loop issue exactly when no week-1 task has a
\* repeating cadence, and the flex issue exactly when every week-1 task is
\* flex; for other types it records neither; for Proposer plans and for the
\* fallback plan with its rendered cadences
C22_CadenceIssues ==
    \A k \in DOMAIN eval_results :
        LET issues == eval_results[k].cadence_issues
            repeating == \E i \in DOMAIN WeekOne : RepeatingCadence(CadenceOf(WeekOne[i]))
            all_flex == \A i \in DOMAIN WeekOne : CadenceOf(WeekOne[i]).type = "flex"
        IN  /\ IssueCount(issues, "repeating") = (IF TypedGoal /\ ~repeating THEN 1 ELSE 0)
            /\ IssueCount(issues, "flex") = (IF TypedGoal /\ all_flex THEN 1 ELSE 0)

\* the fallback plan of a health goal, its cadences rendered, was evaluated
\* and the repeating-loop issue recorded
C22_Witness ==
    /\ eval_results # <<>>
    /\ given_plan = FallbackPlan
    /\ resolution_type = "health"
    /\ \A i \in DOMAIN WeekOne : ~WeekOne[i].has_struct /\ WeekOne[i].cadence.kind = "str"
    /\ IssueCount(eval_results[1].cadence_issues, "repeating") = 1

\* a Proposer plan of a habit goal whose only repeating task is five times a
\* week was evaluated without the repeating-loop issue
C22_WitnessProposer ==
    /\ eval_results # <<>>
    /\ resolution_type = "habit"
    /\ \A i \in DOMAIN WeekOne : WeekOne[i].has_struct
    /\ \E i \in DOMAIN WeekOne : /\ WeekOne[i].cadence_struct.type = "x_per_week"
                                 /\ WeekOne[i].cadence_struct.count = 5
    /\ \A i \in DOMAIN WeekOne : WeekOne[i].cadence_struct.type # "daily"
    /\ IssueCount(eval_results[1].cadence_issues, "repeating") = 0

-----------------------------------------------------------------------------
(* Claims about the availability pass *)

Enforced == DOMAIN enforced_tasks
MinutesOf(clock) == clock[1] * 60 + clock[2]
WorkStart == MinutesOf(availability.work_start)
WorkEnd == MinutesOf(availability.work_end)
OnWeekday(i) == Weekday(weekStartWd, enforced_tasks[i].scheduled_day) < 5
InsideWorkWindow(i) ==
    WorkStart <= MinutesOf(scheduled_tasks[i].scheduled_time)
    /\ MinutesOf(scheduled_tasks[i].scheduled_time) < WorkEnd

\* C23: for a personal-domain task the pass moves a time inside the work
\* window only under strict work-mode on a weekday, to work end + 60 minutes
\* or, when that reaches 22:00, to a time before the window starts; without
\* strict work-mode, or on a weekend day, a time between 05:00 and 22:00
\* stays as the scheduler assigned it
C23_TimeMovedOnlyInStrictMode ==
    resolution_domain = "personal" =>
        \A i \in Enforced :
            LET before == MinutesOf(scheduled_tasks[i].scheduled_time)
                after == MinutesOf(enforced_tasks[i].scheduled_time)
            IN  IF availability.work_mode_enabled /\ OnWeekday(i) /\ InsideWorkWindow(i)
                THEN IF WorkEnd + 60 >= 22 * 60 THEN after < WorkStart
                     ELSE after = WorkEnd + 60
                ELSE (5 * 60 <= before /\ before <= 22 * 60) => after = before

DistinctTimes(tasks) ==
    \A i, j \in DOMAIN tasks :
        (i # j /\ tasks[i].scheduled_day = tasks[j].scheduled_day)
            => tasks[i].scheduled_time # tasks[j].scheduled_time
AtMostTwoHeavy(tasks) ==
    \A i \in DOMAIN tasks :
        Cardinality({j \in DOMAIN tasks : /\ tasks[j].scheduled_day = tasks[i].scheduled_day
                                          /\ tasks[j].estimated_duration_min >= HeavyMinutes}) <= 2

\* C25: when the scheduler left no two week-1 tasks of a day with the same
\* time and no day with more than 2 tasks of at least 15 minutes, the same
\* holds after the availability pass, for every profile, domain and category
C25_PassKeepsSchedulerGuarantees ==
    (enforced_tasks # <<>> /\ DistinctTimes(scheduled_tasks) /\ AtMostTwoHeavy(scheduled_tasks))
        => (DistinctTimes(enforced_tasks) /\ AtMostTwoHeavy(enforced_tasks))

(***************************************************************************)
(* Claims about the path flags of the evaluation summary                   *)
(***************************************************************************)
Summary == result.evaluation_summary
Evaluated == pc \in {"evaluated", "repaired", "regenerated", "done"}

\* C24: in the evaluation summary of every returned plan, passed = false
\* implies fallback_used, regenerate_used implies repair_used, and with a
\* Proposer configured fallback_used implies repair_used and regenerate_used;
\* every failed evaluation carries repair instructions
C24_PathFlagsConsistent ==
    /\ (Evaluated /\ ~evaluation.passed) => evaluation.repair_instructions # <<>>
    /\ result.returned =>
          /\ ~Summary.passed => Summary.fallback_used
          /\ Summary.regenerate_used => Summary.repair_used
          /\ (client /\ Summary.fallback_used) =>
                (Summary.repair_used /\ Summary.regenerate_used)

\* a plan returned with a Proposer configured after repair, regeneration and
\* fallback all ran
C24_Witness ==
    /\ client
    /\ result.returned
    /\ Summary.fallback_used /\ Summary.repair_used /\ Summary.regenerate_used
    /\ Len(calls) = 3

(***************************************************************************)
(* Claims about the range of the scheduled days                            *)
(***************************************************************************)
WeekOffsets == 0..6
LastSearchOffset == max_checks - 1

\* C26: every occurrence has its target day in week_start..week_start+6 and
\* is scheduled on or after its target day and at most 20 days after it, so
\* on none of the days before week_start or after week_start+26
C26_ScheduledWithinSearchWindow ==
    \A i \in Occ :
        /\ enriched[i].target_day \in WeekOffsets
        /\ enriched[i].scheduled_day >= enriched[i].target_day
        /\ enriched[i].scheduled_day <= enriched[i].target_day + LastSearchOffset
        /\ enriched[i].scheduled_day \in 0..(6 + LastSearchOffset)

\* one occurrence was moved to the last day of its search window, and another
\* with a target day after week_start found no day and stayed on its target
C26_Witness ==
    /\ \E i \in Occ :
          /\ enriched[i].day_found
          /\ enriched[i].scheduled_day = enriched[i].target_day + LastSearchOffset
    /\ \E i \in Occ :
          /\ ~enriched[i].day_found
          /\ enriched[i].target_day > 0
          /\ enriched[i].scheduled_day = enriched[i].target_day

(***************************************************************************)
(* Claims about concurrent weekly-plan runs                                *)
(***************************************************************************)
BothReturned == \A r \in Runners : RunOf(r).pc = "returned"
SameUnforcedRequest ==
    /\ \A r \in Runners : ~RunOf(r).force
    /\ \A r1, r2 \in Runners : RunOf(r1).user_id = RunOf(r2).user_id
WeekSnapshotsOf(user_id) ==
    {i \in DOMAIN job_snapshots :
        /\ job_snapshots[i].user_id = user_id
        /\ job_snapshots[i].action_type = "weekly_plan_generated"
        /\ job_snapshots[i].week = SnapshotWeek("weekly_plan_generated")}
TaskSetsWritten == {r \in Runners : RunOf(r).created > 0}

\* C27: after two concurrent runs without force for the same user and week
\* there is at most one weekly_plan_generated snapshot for that week and at
\* most one set of materialized tasks
C27_OneSnapshotAfterConcurrentRuns ==
    (BothReturned /\ SameUnforcedRequest) =>
        /\ \A user_id \in ApiUsers : Cardinality(WeekSnapshotsOf(user_id)) <= 1
        /\ Cardinality(TaskSetsWritten) <= 1

(***************************************************************************)
(* Claims about the slots of the materialized tasks, stated on the rows of *)
(* the table: what a task saw is rebuilt from the rows older than it       *)
(***************************************************************************)
Created == DOMAIN materialized
TimedCreated == {i \in Created : materialized[i].requested_time # NoTime}
RowOf(i) == materialized[i].task
\* the times on day d of the user's non-draft rows written before row i
TakenBefore(i, d) ==
    {row.scheduled_time :
        row \in {t \in db_tasks : /\ t.id < RowOf(i).id
                                  /\ t.user_id = RowOf(i).user_id
                                  /\ ~t.draft
                                  /\ t.scheduled_day = d
                                  /\ t.scheduled_time # NoTime}}
CandidateTimes(i) == {materialized[i].requested_time} \cup Range(Anchors)
CandidateFree(i) == \E d \in PlanWeek : CandidateTimes(i) \ TakenBefore(i, d) # {}
KeepsRequest(i) ==
    /\ RowOf(i).scheduled_day = materialized[i].requested_day
    /\ RowOf(i).scheduled_time = materialized[i].requested_time

\* C29: every task materialized with a time lies on a day of the week; while
\* a candidate slot of the week is free it takes a candidate time that no
\* earlier task of the run and no existing non-draft task of the user holds
\* on that day; when every candidate slot is taken it keeps its requested
\* day and time
C29_MaterializedSlots ==
    \A i \in TimedCreated :
        /\ RowOf(i).scheduled_day \in PlanWeek
        /\ CandidateFree(i) =>
              /\ RowOf(i).scheduled_time \in CandidateTimes(i)
              /\ RowOf(i).scheduled_time \notin TakenBefore(i, RowOf(i).scheduled_day)
        /\ ~CandidateFree(i) => KeepsRequest(i)

\* a run whose second task wrapped around to an earlier day for the last
\* free slot of the week and whose third task found every candidate slot taken
C29_Witness ==
    /\ Len(materialized) = 3
    /\ Created = TimedCreated
    /\ CandidateFree(2) /\ RowOf(2).scheduled_day < materialized[2].requested_day
    /\ ~CandidateFree(3) /\ KeepsRequest(3)

(***************************************************************************)
(* Claims about completed and completed_at                                 *)
(***************************************************************************)
RowsFrom(source) == {task \in db_tasks : task.source = source}

\* C28: after any sequence of activations, completion toggles, reduce-scope
\* and reflect interventions and weekly materializations, every task row has
\* completed_at set exactly when completed is true
C28_CompletedAtIffCompleted ==
    \A task \in db_tasks : task.completed_at <=> task.completed

\* tasks were materialized, the draft tasks were activated and reduce_scope
\* completed two open tasks: a task ticked off as a draft is open again, and
\* completed and open planner tasks stand next to each other
C28_Witness ==
    /\ materialized # <<>>
    /\ \A task \in RowsFrom("decomposer_v1") : ~task.draft /\ ~task.completed
    /\ Cardinality({task \in RowsFrom("rolling_wave") : task.completed /\ task.completed_at}) = 2
    /\ \E task \in RowsFrom("rolling_wave") : ~task.completed /\ ~task.completed_at

(***************************************************************************)
(* Claims about approval decisions that change nothing                     *)
(***************************************************************************)
ApproveAnswered ==
    /\ api_response'.op = "approve"
    /\ api_response'.seq = api_response.seq + 1
    /\ api_response'.user_id = Owner
OutsideDrafts(edits) == edits \ TaskIds(fetch_draft_tasks(db_tasks))
RefusableAccept ==
    /\ api_response'.decision = "accept"
    /\ \/ resolution_status = "active"
       \/ stored_plan = 0
       \/ fetch_draft_tasks(db_tasks) = {}
       \/ OutsideDrafts(api_response'.task_edits) # {}

====
